---------------------------- MODULE Spec2Model ----------------------------
(***************************************************************************)
(* Model of the Scaffold host-side driver (api/scaffold/__init__.py):      *)
(* the bus engine ScaffoldBus (datagram framing, chunking, synchronous and *)
(* lazy acknowledgment), the Register abstraction built on top of it, and  *)
(* the signal matrices and the timeout setting of the Scaffold class.      *)
(*                                                                         *)
(* The serial link is modelled as the byte stream rx of bytes the board    *)
(* has put on the wire and the host has not read yet: the board answers    *)
(* every request datagram when it is sent, ser.read(n) takes the n oldest  *)
(* bytes.  Every action is one complete call of a method of the source.    *)
(***************************************************************************)
EXTENDS Integers, Sequences, FiniteSets, TLC

VARIABLES
    ser,          \* ScaffoldBus.ser: FALSE is None, TRUE is an open serial port
    debug,        \* Python's __debug__: TRUE when assert statements are executed
    lazy_stack,   \* ScaffoldBus.__lazy_stack
    lazy_writes,  \* ScaffoldBus.__lazy_writes
    rx,           \* bytes sent by the board and not yet read by the host
    issued,       \* history: chunk sizes written since the depth last left 0
    reg,          \* the Register under study (its constructor arguments)
    cache,        \* Register.__cache: <<>> is None, <<v>> is the int v
    cache_timeout,  \* Scaffold.__cache_timeout: <<>> is None, <<n>> is the int n
    timeout_stack,  \* Scaffold.__timeout_stack
    timeout_sent,   \* history: value of the last timeout datagram sent, if any
    pushed,         \* history: timeout_sent at the push of each stack entry
    section,      \* the 'with bus.lazy_section()' blocks the caller is inside
    device,       \* the byte held by the register of the board under study
    callers,      \* where each of two callers of a register helper stands
    pending,      \* responses the board owes to datagrams it has received
    blocked,      \* the call of the bus engine that waits in ser.read, if any
    last          \* observation of the last call: arguments, I/O done, outcome

vars == <<ser, debug, lazy_stack, lazy_writes, rx, issued, reg, cache,
          cache_timeout, timeout_stack, timeout_sent, pushed, section, device,
          callers, pending, blocked, last>>

busVars == <<lazy_stack, lazy_writes, rx, issued>>

timeoutVars == <<cache_timeout, timeout_stack, timeout_sent, pushed>>

callerVars == <<device, callers>>

liveVars == <<pending, blocked>>

(***************************************************************************)
(* Program constants and model bounds                                      *)
(***************************************************************************)
MAX_CHUNK == 255

ADDR_LIMIT == 65536

BYTE_LIMIT == 256

MaxDepth == 2

MaxQueue == 2

MaxWire == 2

MaxData == 1

MaxChunks == 3

MaxStack == 3

Min(a, b) == IF a < b THEN a ELSE b

RECURSIVE Pow(_, _)
Pow(b, e) == IF e = 0 THEN 1 ELSE b * Pow(b, e - 1)

(***************************************************************************)
(* Python values                                                           *)
(***************************************************************************)
NoExc == [type |-> "None", msg |-> ""]

Exc(t, m) == [type |-> t, msg |-> m]

NotConnected == Exc("RuntimeError", "Not connected to board")

\* The caller is inside no 'with bus.lazy_section()' block. depths holds the
\* depth met by __enter__ of each open block, exc the exception handed to the
\* last __exit__ (NoExc: None).
NoSection == [depths |-> <<>>, exc |-> NoExc]

\* No call of the bus engine is waiting in ser.read. A waiting call holds
\* the locals of its method: need is the argument of the ser.read it waits in
NoCall ==
    [op |-> "none", need |-> 0, addr |-> 0, data |-> <<>>, p |-> <<>>, offset |-> 0,
     remaining |-> 0, chunk_size |-> 0, result |-> <<>>, i |-> 0, last_error |-> <<>>]

\* A caller that is inside no call: pc is "idle", then "read" between the
\* get and the set of a helper, then "done"; op and args are its call,
\* current the value its get returned
Idle == [pc |-> "idle", op |-> "", args |-> <<>>, current |-> 0]

NoCallers == [c \in 1..2 |-> Idle]

\* poll=None, poll_mask=0xff, poll_value=0x00: the defaults of read and write
NoPoll == [poll |-> <<>>, mask |-> 255, value |-> 0]

\* Python's seq[:n] for n >= 0
Prefix(s, n) == SubSeq(s, 1, Min(n, Len(s)))

\* Python's seq[n:] for n >= 0
Drop(s, n) == SubSeq(s, n + 1, Len(s))

\* The observation of a call that has done nothing yet
Call(op) ==
    [op |-> op, depth |-> lazy_stack, exc |-> NoExc, sent |-> <<>>, nread |-> 0,
     checks |-> <<>>, tsize |-> -1, tdata |-> <<>>, ret |-> <<>>,
     addr |-> 0, data |-> <<>>, size |-> 0, poll |-> NoPoll, value |-> 0,
     args |-> <<>>]

(***************************************************************************)
(* TimeoutError.__init__                                                   *)
(***************************************************************************)
\* TimeoutError(size=n): data is None
TimeoutSize(o, n) ==
    [o EXCEPT !.exc = Exc("TimeoutError", "write"), !.tsize = n, !.tdata = <<>>]

\* TimeoutError(data=d): size is len(data)
TimeoutData(o, d) ==
    [o EXCEPT !.exc = Exc("TimeoutError", "read"), !.tsize = Len(d), !.tdata = <<d>>]

(***************************************************************************)
(* ScaffoldBus.prepare_datagram                                            *)
(***************************************************************************)
PrepareError(rw, addr, size, p) ==
    IF rw \notin 0..1 THEN Exc("ValueError", "Invalid rw argument")
    ELSE IF size \notin 1..MAX_CHUNK THEN Exc("ValueError", "Invalid size")
    ELSE IF addr \notin 0..(ADDR_LIMIT - 1) THEN Exc("ValueError", "Invalid address")
    ELSE IF p.poll # <<>> /\ p.poll[1] \notin 0..(ADDR_LIMIT - 1)
         THEN Exc("ValueError", "Invalid polling address")
    ELSE IF p.poll # <<>> /\ (p.mask \notin 0..(BYTE_LIMIT - 1) \/ p.value \notin 0..(BYTE_LIMIT - 1))
         THEN Exc("ValueError", "byte must be in range(0, 256)")
    ELSE NoExc

\* (a variant that never announces a chunk-size byte)
Command_NoSizeFlag(rw, size, p) ==
    rw + (IF p.poll # <<>> THEN 4 ELSE 0)

Command(rw, size, p) ==
    rw + (IF size > 1 THEN 2 ELSE 0) + (IF p.poll # <<>> THEN 4 ELSE 0)

prepare_datagram(rw, addr, size, p) ==
    <<Command(rw, size, p), addr \div BYTE_LIMIT, addr % BYTE_LIMIT>>
    \o (IF p.poll # <<>>
        THEN <<p.poll[1] \div BYTE_LIMIT, p.poll[1] % BYTE_LIMIT, p.mask, p.value>>
        ELSE <<>>)
    \o (IF size > 1 THEN <<size>> ELSE <<>>)

(***************************************************************************)
(* ScaffoldBus.write                                                       *)
(***************************************************************************)
ChunkSize(remaining) == Min(MAX_CHUNK, remaining)

NChunks(n) == (n + MAX_CHUNK - 1) \div MAX_CHUNK

\* (a variant that forgets the chunks already written)
WriteTimeoutSize_AckOnly(offset, ack) == ack

\* size carried by the TimeoutError of a synchronous write
WriteTimeoutSize(offset, ack) == offset + ack

\* the assert statements of write and read: executed unless python runs with -O
AssertFails(p) == debug /\ p.poll = <<>>

\* One chunk whose acknowledgment is checked at once (__lazy_stack == 0).
\* b holds the engine state and the call's observation; wire is rx after the
\* board's answer to this chunk.
WriteSync(b, p, offset, chunk_size) ==
    LET ack == Head(b.rx)
        o == [b.o EXCEPT !.nread = @ + 1, !.checks = Append(@, <<chunk_size, ack>>)]
        b2 == [b EXCEPT !.rx = Tail(@), !.o = o]
    IN  IF ack # chunk_size
        THEN IF AssertFails(p)
             THEN [b2 EXCEPT !.o.exc = Exc("AssertionError", "")]
             ELSE [b2 EXCEPT !.o = TimeoutSize(o, WriteTimeoutSize(offset, ack))]
        ELSE b2

\* (a variant that puts the expected size at the head of the queue)
WriteLazy_AtHead(b, chunk_size) ==
    [b EXCEPT !.lazy_writes = <<chunk_size>> \o @, !.issued = Append(@, chunk_size)]

\* One chunk inside a lazy-update section: the expected size is queued.
WriteLazy(b, chunk_size) ==
    [b EXCEPT !.lazy_writes = Append(@, chunk_size), !.issued = Append(@, chunk_size)]

\* (a variant that slices every chunk from the start of the data)
ChunkData_NoOffset(data, offset, chunk_size) == SubSeq(data, 1, chunk_size)

\* the payload of a chunk: data[offset:offset + chunk_size]
ChunkData(data, offset, chunk_size) == SubSeq(data, offset + 1, offset + chunk_size)

RECURSIVE WriteChunks(_, _, _, _, _, _)
WriteChunks(b, addr, data, p, offset, acks) ==
    LET remaining == Len(data) - offset
        chunk_size == ChunkSize(remaining)
        err == PrepareError(1, addr, chunk_size, p)
        datagram == prepare_datagram(1, addr, chunk_size, p)
                        \o ChunkData(data, offset, chunk_size)
        k == Len(b.o.sent) + 1
        b1 == [b EXCEPT !.o.sent = Append(@, datagram), !.rx = Append(@, acks[k])]
        b2 == IF lazy_stack = 0 THEN WriteSync(b1, p, offset, chunk_size)
              ELSE WriteLazy(b1, chunk_size)
    IN  IF remaining = 0 THEN b
        ELSE IF err # NoExc THEN [b EXCEPT !.o.exc = err]
        ELSE IF b2.o.exc # NoExc THEN b2
        ELSE WriteChunks(b2, addr, data, p, offset + chunk_size, acks)

\* The engine state and observation after bus.write(addr, data, poll...), the
\* board answering chunk k with the acknowledgment byte acks[k].
bus_write(o, addr, data, p, acks) ==
    LET b == [lazy_writes |-> lazy_writes, rx |-> rx, issued |-> issued,
              o |-> [o EXCEPT !.addr = addr, !.data = data, !.poll = p]]
    IN  IF ~ser THEN [b EXCEPT !.o.exc = NotConnected]
        ELSE WriteChunks(b, addr, data, p, 0, acks)

(***************************************************************************)
(* ScaffoldBus.read                                                        *)
(***************************************************************************)
\* (a variant that refuses reads only in nested sections)
LazyReadError_NestedOnly ==
    IF lazy_stack > 1
    THEN Exc("RuntimeError", "Read operations not allowed during lazy-update section.")
    ELSE NoExc

\* read is refused inside a lazy-update section
LazyReadError ==
    IF lazy_stack > 0
    THEN Exc("RuntimeError", "Read operations not allowed during lazy-update section.")
    ELSE NoExc

\* (a variant that keeps the whole chunk, as for a full acknowledgment)
ShortReadData_WholeChunk(res, ack) == Prefix(res, Len(res) - 1)

\* bytes of a chunk kept when its acknowledgment is short: res[:ack]
ShortReadData(res, ack) == Prefix(res, ack)

\* bytes of a fully acknowledged chunk: res[:-1]
ChunkPayload(res) == Prefix(res, Len(res) - 1)

RECURSIVE ReadChunks(_, _, _, _, _, _)
ReadChunks(b, addr, p, remaining, result, resp) ==
    LET chunk_size == ChunkSize(remaining)
        err == PrepareError(0, addr, chunk_size, p)
        datagram == prepare_datagram(0, addr, chunk_size, p)
        k == Len(b.o.sent) + 1
        wire == b.rx \o resp[k]
        res == Prefix(wire, chunk_size + 1)
        ack == res[Len(res)]
        b1 == [b EXCEPT !.o.sent = Append(@, datagram), !.rx = Drop(wire, chunk_size + 1),
                        !.o.nread = @ + Len(res),
                        !.o.checks = Append(@, <<chunk_size, ack>>)]
    IN  IF remaining = 0 THEN [b EXCEPT !.o.ret = <<result>>]
        ELSE IF err # NoExc THEN [b EXCEPT !.o.exc = err]
        ELSE IF ack # chunk_size
             THEN IF AssertFails(p)
                  THEN [b1 EXCEPT !.o.exc = Exc("AssertionError", "")]
                  ELSE [b1 EXCEPT !.o = TimeoutData(b1.o, result \o ShortReadData(res, ack))]
        ELSE ReadChunks(b1, addr, p, remaining - chunk_size,
                        result \o ChunkPayload(res), resp)

\* The engine state and observation after bus.read(addr, size, poll...), the
\* board answering chunk k with the bytes resp[k] (payload, then the count).
bus_read(o, addr, size, p, resp) ==
    LET b == [lazy_writes |-> lazy_writes, rx |-> rx, issued |-> issued,
              o |-> [o EXCEPT !.addr = addr, !.size = size, !.poll = p]]
    IN  IF ~ser THEN [b EXCEPT !.o.exc = NotConnected]
        ELSE IF LazyReadError # NoExc THEN [b EXCEPT !.o.exc = LazyReadError]
        ELSE ReadChunks(b, addr, p, size, <<>>, resp)

(***************************************************************************)
(* ScaffoldBus.lazy_start / lazy_end                                       *)
(***************************************************************************)
\* (a variant that tests the depth for being negative)
LazyEndError_NegativeOnly ==
    IF lazy_stack < 0 THEN Exc("RuntimeError", "No lazy section started") ELSE NoExc

\* lazy_end refuses to close a section that was not opened
LazyEndError ==
    IF lazy_stack = 0 THEN Exc("RuntimeError", "No lazy section started") ELSE NoExc

\* (a variant that keeps the first mismatch)
KeepError_First(last_error, ack, expected_size) ==
    IF ack # expected_size /\ last_error = <<>> THEN <<ack>> ELSE last_error

\* last_error after the check of one acknowledgment: a mismatch replaces it
KeepError(last_error, ack, expected_size) ==
    IF ack # expected_size THEN <<ack>> ELSE last_error

\* The loop over __lazy_writes: one byte read per entry, the last mismatch kept.
RECURSIVE DrainAcks(_, _, _)
DrainAcks(b, i, last_error) ==
    IF i > Len(b.lazy_writes) THEN [b |-> b, last_error |-> last_error]
    ELSE LET expected_size == b.lazy_writes[i]
             ack == Head(b.rx)
             b1 == [b EXCEPT !.rx = Tail(@), !.o.nread = @ + 1,
                             !.o.checks = Append(@, <<expected_size, ack>>)]
         IN  DrainAcks(b1, i + 1, KeepError(last_error, ack, expected_size))

\* (a variant that raises before the queue is cleared)
QueueAfterLazyEnd_KeptOnError(queue, depth, last_error) ==
    IF last_error # <<>> THEN queue ELSE <<>>

\* The queue after lazy_end: __lazy_writes.clear() stands after the if block,
\* so it runs on every accepted lazy_end, whatever the depth left.
QueueAfterLazyEnd(queue, depth, last_error) == <<>>

\* (a variant that leaves the depth alone when the flush fails)
DepthAfterLazyEnd_KeptOnTimeout(exc) ==
    IF exc # NoExc THEN lazy_stack ELSE lazy_stack - 1

\* The depth after an accepted lazy_end: __lazy_stack -= 1 stands before the
\* flush, so it has run when the flush raises.
DepthAfterLazyEnd(exc) == lazy_stack - 1

bus_lazy_end(o) ==
    LET b == [lazy_writes |-> lazy_writes, rx |-> rx, issued |-> issued, o |-> o]
        depth == lazy_stack - 1
        d == IF depth = 0 THEN DrainAcks(b, 1, <<>>) ELSE [b |-> b, last_error |-> <<>>]
        b1 == [d.b EXCEPT !.lazy_writes = QueueAfterLazyEnd(@, depth, d.last_error)]
    IN  IF d.last_error # <<>>
        THEN [b1 EXCEPT !.o = TimeoutSize(b1.o, d.last_error[1])]
        ELSE b1

(***************************************************************************)
(* The board                                                               *)
(***************************************************************************)
\* What the board may answer to a chunk: all of it, or fewer bytes when its
\* polling timeout expired.
AckKinds == {"full", "short", "none"}

AckValue(kind, n) ==
    IF kind = "full" THEN n ELSE IF kind = "short" THEN n - 1 ELSE 0

\* k bytes of payload
Payload(seed, k) == [i \in 1..k |-> (seed + i) % BYTE_LIMIT]

Seeds == {16, 160}

\* Size of chunk k (from 1) of a transfer of n bytes
ChunkLen(n, k) == Min(MAX_CHUNK, n - (k - 1) * MAX_CHUNK)

\* The board's acknowledgment bytes for the chunks of an n-byte write
WriteAnswers(n, kinds) ==
    {[k \in 1..NChunks(n) |-> AckValue(c[k], ChunkLen(n, k))] :
        c \in [1..NChunks(n) -> kinds]}

\* The board's responses to the chunks of an n-byte read: the payload of the
\* chunk followed by the count of bytes it returned
ReadAnswers(n, kinds, seeds) ==
    {[k \in 1..NChunks(n) |->
        Payload(c[k][2], ChunkLen(n, k)) \o <<AckValue(c[k][1], ChunkLen(n, k))>>] :
        c \in [1..NChunks(n) -> kinds \X seeds]}

(***************************************************************************)
(* Actions of the bus engine                                               *)
(***************************************************************************)
\* ScaffoldBus.connect
Connect ==
    /\ ~ser
    /\ ser' = TRUE
    /\ last' = Call("connect")
    /\ UNCHANGED <<liveVars, callerVars, section, timeoutVars, debug, busVars, reg, cache>>

LazyStart ==
    /\ lazy_stack < MaxDepth
    /\ lazy_stack' = lazy_stack + 1
    /\ issued' = IF lazy_stack = 0 THEN <<>> ELSE issued
    /\ last' = Call("lazy_start")
    /\ UNCHANGED <<liveVars, callerVars, section, timeoutVars, ser, debug, lazy_writes, rx, reg, cache>>

\* ScaffoldBus.lazy_end (the first conjunct only bounds the depth from below)
LazyEnd ==
    /\ lazy_stack > -MaxDepth
    /\ IF LazyEndError # NoExc
       THEN /\ last' = [Call("lazy_end") EXCEPT !.exc = LazyEndError]
            /\ UNCHANGED <<lazy_stack, lazy_writes, rx>>
       ELSE \E b \in {bus_lazy_end(Call("lazy_end"))} :
               /\ lazy_stack' = DepthAfterLazyEnd(b.o.exc)
               /\ lazy_writes' = b.lazy_writes
               /\ rx' = b.rx
               /\ last' = b.o
    /\ UNCHANGED <<liveVars, callerVars, section, timeoutVars, ser, debug, issued, reg, cache>>

Write(addr, data, p, kinds) ==
    /\ Len(rx) = 0 \/ Len(rx) + NChunks(Len(data)) <= MaxWire
    /\ Len(lazy_writes) = 0 \/ Len(lazy_writes) + NChunks(Len(data)) <= MaxQueue
    /\ \E acks \in WriteAnswers(Len(data), kinds) :
        \E b \in {bus_write(Call("write"), addr, data, p, acks)} :
              /\ lazy_writes' = b.lazy_writes
              /\ rx' = b.rx
              /\ issued' = b.issued
              /\ last' = b.o
    /\ UNCHANGED <<liveVars, callerVars, section, timeoutVars, ser, debug, lazy_stack, reg, cache>>

Read(addr, size, p, kinds, seeds) ==
    /\ \E resp \in ReadAnswers(size, kinds, seeds) :
        \E b \in {bus_read(Call("read"), addr, size, p, resp)} :
              /\ rx' = b.rx
              /\ last' = b.o
    /\ UNCHANGED <<liveVars, callerVars, section, timeoutVars, ser, debug, lazy_stack, lazy_writes, issued, reg, cache>>

(***************************************************************************)
(* Specification of the bus engine with short transfers                    *)
(***************************************************************************)
NoReg == [address |-> 0, r |-> FALSE, w |-> FALSE, volatile |-> FALSE,
          wideness |-> 1, min_value |-> 0, max_value |-> 255]

Polls == {NoPoll, [poll |-> <<1024>>, mask |-> 1, value |-> 1]}

Addrs == {517}

Init ==
    /\ ser = FALSE
    /\ debug \in BOOLEAN
    /\ lazy_stack = 0
    /\ lazy_writes = <<>>
    /\ rx = <<>>
    /\ issued = <<>>
    /\ reg = NoReg
    /\ cache = <<>>
    /\ cache_timeout = <<>>
    /\ timeout_stack = <<>>
    /\ timeout_sent = <<>>
    /\ pushed = <<>>
    /\ section = NoSection
    /\ device = 0
    /\ callers = NoCallers
    /\ pending = <<>>
    /\ blocked = NoCall
    /\ last = [Call("init") EXCEPT !.depth = 0]

BusWrite == \E addr \in Addrs, n \in 0..MaxData, p \in Polls :
                Write(addr, Payload(16, n), p, AckKinds)

BusRead == \E addr \in Addrs, n \in 0..MaxData, p \in Polls :
                Read(addr, n, p, AckKinds, {16})

Next == Connect \/ LazyStart \/ LazyEnd \/ BusWrite \/ BusRead

Spec == Init /\ [][Next]_vars

(***************************************************************************)
(* Register                                                                *)
(***************************************************************************)
\* Register.__init__: the checks of the constructor arguments
RegisterOk(g) ==
    /\ g.address \in 0..(ADDR_LIMIT - 1)
    /\ g.wideness >= 1
    /\ ~(g.wideness > 1 /\ g.r)
    /\ g.min_value \in 0..(Pow(2, g.wideness * 8) - 1)
    /\ g.max_value \in 0..(Pow(2, g.wideness * 8) - 1)
    /\ g.min_value <= g.max_value

\* Register(parent, mode, address, wideness, min_value, max_value), None
\* bounds replaced by their defaults
Register(mode, address, wideness, min_value, max_value) ==
    [address |-> address, r |-> mode.r, w |-> mode.w, volatile |-> mode.v,
     wideness |-> wideness, min_value |-> min_value, max_value |-> max_value]

Mode(r, w, v) == [r |-> r, w |-> w, v |-> v]

\* value.to_bytes(wideness, 'big', signed=False)
ToBytes(value, wideness) ==
    [i \in 1..wideness |-> (value \div Pow(BYTE_LIMIT, wideness - i)) % BYTE_LIMIT]

\* (a variant without the check of the Writable capability)
SetError_NoWritable(value) ==
    IF value < reg.min_value THEN Exc("ValueError", "Value too low")
    ELSE IF value > reg.max_value THEN Exc("ValueError", "Value too high")
    ELSE NoExc

\* (a variant without the check of the maximum)
SetError_NoMaximum(value) ==
    IF value < reg.min_value THEN Exc("ValueError", "Value too low")
    ELSE IF ~reg.w THEN Exc("RuntimeError", "Register cannot be written")
    ELSE NoExc

\* The checks of Register.set before any I/O, in the order of the source
SetError(value) ==
    IF value < reg.min_value THEN Exc("ValueError", "Value too low")
    ELSE IF value > reg.max_value THEN Exc("ValueError", "Value too high")
    ELSE IF ~reg.w THEN Exc("RuntimeError", "Register cannot be written")
    ELSE NoExc

\* (a variant that saves the value before the outcome of bus.write is known)
CacheAfterSet_Always(exc, value) == <<value>>

\* The cache after Register.set: the value is saved when bus.write returned
CacheAfterSet(exc, value) == IF exc = NoExc THEN <<value>> ELSE cache

\* Register.set(value, poll, poll_mask, poll_value)
RegSet(value, p) ==
    /\ Len(rx) = 0 \/ Len(rx) + 1 <= MaxWire
    /\ Len(lazy_writes) = 0 \/ Len(lazy_writes) + 1 <= MaxQueue
    /\ LET o == [Call("set") EXCEPT !.value = value, !.poll = p]
       IN  IF SetError(value) # NoExc
           THEN /\ last' = [o EXCEPT !.exc = SetError(value)]
                /\ UNCHANGED <<busVars, cache>>
           ELSE \E acks \in WriteAnswers(reg.wideness, AckKinds) :
                \E b \in {bus_write(o, reg.address, ToBytes(value, reg.wideness), p, acks)} :
                       /\ lazy_writes' = b.lazy_writes
                       /\ rx' = b.rx
                       /\ issued' = b.issued
                       /\ last' = b.o
                       /\ cache' = CacheAfterSet(b.o.exc, value)
                       /\ UNCHANGED lazy_stack
    /\ UNCHANGED <<liveVars, callerVars, section, timeoutVars, ser, debug, reg>>

\* (a variant that answers from the cache only for unreadable registers)
CacheHit_OnlyUnreadable == ~reg.volatile /\ cache # <<>> /\ ~reg.r

\* (a variant that answers from the cache for volatile registers too)
CacheHit_IgnoresVolatile == cache # <<>>

\* Whether Register.get answers from the cache
CacheHit == ~reg.volatile /\ cache # <<>>

\* The check of Register.get before it reads the bus
GetError ==
    IF ~reg.r THEN Exc("RuntimeError", "Register cannot be read") ELSE NoExc

\* (a variant that does not keep the value read)
CacheAfterGet_NotStored(value) == cache

\* The cache after Register.get has read the bus: the value read is saved
\* for a register that is not volatile
CacheAfterGet(value) == IF reg.volatile THEN cache ELSE <<value>>

\* Register.get()
RegGet ==
    /\ LET o == Call("get")
       IN  IF CacheHit
           THEN /\ last' = [o EXCEPT !.ret = cache]
                /\ UNCHANGED <<busVars, cache>>
           ELSE IF GetError # NoExc
           THEN /\ last' = [o EXCEPT !.exc = GetError]
                /\ UNCHANGED <<busVars, cache>>
           ELSE \E resp \in ReadAnswers(1, AckKinds, Seeds) :
                \E b \in {bus_read(o, reg.address, 1, NoPoll, resp)} :
                   LET value == b.o.ret[1][1]
                   IN  /\ rx' = b.rx
                       /\ IF b.o.exc # NoExc
                          THEN last' = b.o /\ UNCHANGED cache
                          ELSE /\ last' = [b.o EXCEPT !.ret = <<value>>]
                               /\ cache' = CacheAfterGet(value)
                       /\ UNCHANGED <<lazy_stack, lazy_writes, issued>>
    /\ UNCHANGED <<liveVars, callerVars, section, timeoutVars, ser, debug, reg>>

\* Register.get() as a function of the board's answer resp: the engine state
\* and observation b, the cache and the value returned
reg_get(o, resp) ==
    LET b == [lazy_writes |-> lazy_writes, rx |-> rx, issued |-> issued, o |-> o]
        r == bus_read(o, reg.address, 1, NoPoll, resp)
    IN  IF CacheHit THEN [b |-> b, cache |-> cache, value |-> cache[1]]
        ELSE IF GetError # NoExc
        THEN [b |-> [b EXCEPT !.o.exc = GetError], cache |-> cache, value |-> 0]
        ELSE IF r.o.exc # NoExc THEN [b |-> r, cache |-> cache, value |-> 0]
        ELSE [b |-> r, cache |-> CacheAfterGet(r.o.ret[1][1]), value |-> r.o.ret[1][1]]

\* The acknowledgments of the chunks of a write that follows the datagrams
\* already sent by the same call
AfterSent(b, acks) ==
    [k \in 1..(Len(b.o.sent) + Len(acks)) |->
        IF k <= Len(b.o.sent) THEN 0 ELSE acks[k - Len(b.o.sent)]]

\* Register.set(value, poll...) after the get of the same call: g is the
\* result of reg_get
reg_set(g, value, p, acks) ==
    LET b == [g.b EXCEPT !.o.value = value, !.o.poll = p]
        data == ToBytes(value, reg.wideness)
        w == WriteChunks([b EXCEPT !.o.addr = reg.address, !.o.data = data],
                         reg.address, data, p, 0, AfterSent(b, acks))
    IN  IF SetError(value) # NoExc
        THEN [b |-> [b EXCEPT !.o.exc = SetError(value)], cache |-> g.cache]
        ELSE IF ~ser THEN [b |-> [b EXCEPT !.o.exc = NotConnected], cache |-> g.cache]
        ELSE [b |-> w, cache |-> IF w.o.exc = NoExc THEN <<value>> ELSE g.cache]

\* a | b for non-negative ints
RECURSIVE BitOr(_, _)
BitOr(a, b) ==
    IF a = 0 /\ b = 0 THEN 0
    ELSE 2 * BitOr(a \div 2, b \div 2) + (IF a % 2 = 1 \/ b % 2 = 1 THEN 1 ELSE 0)

\* a & b for non-negative ints
RECURSIVE BitAnd(_, _)
BitAnd(a, b) ==
    IF a = 0 \/ b = 0 THEN 0
    ELSE 2 * BitAnd(a \div 2, b \div 2) + (IF a % 2 = 1 /\ b % 2 = 1 THEN 1 ELSE 0)

\* a & ~b for non-negative ints
RECURSIVE BitAndNot(_, _)
BitAndNot(a, b) ==
    IF a = 0 THEN 0
    ELSE 2 * BitAndNot(a \div 2, b \div 2) + (IF a % 2 = 1 /\ b % 2 = 0 THEN 1 ELSE 0)

\* (a variant whose set_bit and set_mask only add bits to the current value)
NewValue_NoClear(op, args, current) ==
    IF op = "or_set" THEN BitOr(current, args[1])
    ELSE IF op = "set_bit"
    THEN BitOr(current, (IF args[2] # 0 THEN 1 ELSE 0) * Pow(2, args[1]))
    ELSE BitOr(current, BitAnd(args[1], args[2]))

\* The value a helper writes, from the value current returned by get():
\* or_set(value): current | value
\* set_bit(index, value): (current & ~(1 << index)) | (int(bool(value)) << index)
\* set_mask(value, mask): (current & ~mask) | (value & mask)
NewValue(op, args, current) ==
    IF op = "or_set" THEN BitOr(current, args[1])
    ELSE IF op = "set_bit"
    THEN BitOr(BitAndNot(current, Pow(2, args[1])),
               (IF args[2] # 0 THEN 1 ELSE 0) * Pow(2, args[1]))
    ELSE BitOr(BitAndNot(current, args[2]), BitAnd(args[1], args[2]))

\* (a variant of the get of the helpers that always reads the board)
helper_get_AlwaysReads(o, resp) ==
    LET r == bus_read(o, reg.address, 1, NoPoll, resp)
    IN  IF r.o.exc # NoExc THEN [b |-> r, cache |-> cache, value |-> 0]
        ELSE [b |-> r, cache |-> CacheAfterGet(r.o.ret[1][1]), value |-> r.o.ret[1][1]]

\* The self.get() of or_set, set_bit and set_mask
helper_get(o, resp) == reg_get(o, resp)

\* What the board answers to the datagrams of a helper
HelperKinds == {"full", "short"}

\* Register.or_set / set_bit / set_mask: self.set(f(self.get()), poll...)
RegHelper(op, args, p) ==
    /\ Len(rx) = 0 \/ Len(rx) + 1 <= MaxWire
    /\ Len(lazy_writes) = 0 \/ Len(lazy_writes) + 1 <= MaxQueue
    /\ \E resp \in ReadAnswers(1, HelperKinds, {16}),
          acks \in WriteAnswers(reg.wideness, HelperKinds) :
       \E g \in {helper_get([Call(op) EXCEPT !.args = args], resp)} :
          IF g.b.o.exc # NoExc
          THEN /\ last' = g.b.o
               /\ rx' = g.b.rx
               /\ cache' = g.cache
               /\ UNCHANGED <<lazy_stack, lazy_writes, issued>>
          ELSE \E w \in {reg_set(g, NewValue(op, args, g.value), p, acks)} :
               /\ last' = w.b.o
               /\ rx' = w.b.rx
               /\ lazy_writes' = w.b.lazy_writes
               /\ issued' = w.b.issued
               /\ cache' = w.cache
               /\ UNCHANGED lazy_stack
    /\ UNCHANGED <<liveVars, callerVars, section, timeoutVars, ser, debug, reg>>

\* Register.get_bit(index): (self.get() >> index) & 1
RegGetBit(index) ==
    /\ \E resp \in ReadAnswers(1, HelperKinds, {16}) :
       \E g \in {reg_get([Call("get_bit") EXCEPT !.args = <<index>>], resp)} :
          /\ last' = IF g.b.o.exc # NoExc THEN g.b.o
                     ELSE [g.b.o EXCEPT !.ret = <<(g.value \div Pow(2, index)) % 2>>]
          /\ rx' = g.b.rx
          /\ cache' = g.cache
    /\ UNCHANGED <<liveVars, callerVars, section, timeoutVars, ser, debug, lazy_stack, lazy_writes, issued, reg>>

(***************************************************************************)
(* Specification of one register on the bus                                *)
(***************************************************************************)
\* Registers as the modules of the source declare them (the UART's status,
\* control, divisor and data registers, the version register, the control
\* register of a pulse generator), and a cached read-write register with
\* bounds
Registers ==
    {Register(Mode(TRUE, FALSE, TRUE), 1024, 1, 0, 255),
     Register(Mode(FALSE, TRUE, FALSE), 1025, 1, 0, 255),
     Register(Mode(FALSE, TRUE, FALSE), 1027, 2, 1, 65535),
     Register(Mode(TRUE, TRUE, TRUE), 1028, 1, 0, 255),
     Register(Mode(TRUE, FALSE, FALSE), 256, 1, 0, 255),
     Register(Mode(FALSE, TRUE, TRUE), 769, 1, 0, 255),
     Register(Mode(TRUE, TRUE, FALSE), 1280, 1, 2, 200)}

\* Values offered to Register.set: the bounds and their neighbours
SetValues == {reg.min_value - 1, reg.min_value, reg.max_value, reg.max_value + 1}

InitReg ==
    /\ ser = FALSE
    /\ debug \in BOOLEAN
    /\ lazy_stack = 0
    /\ lazy_writes = <<>>
    /\ rx = <<>>
    /\ issued = <<>>
    /\ reg \in {g \in Registers : RegisterOk(g)}
    /\ cache = <<>>
    /\ cache_timeout = <<>>
    /\ timeout_stack = <<>>
    /\ timeout_sent = <<>>
    /\ pushed = <<>>
    /\ section = NoSection
    /\ device = 0
    /\ callers = NoCallers
    /\ pending = <<>>
    /\ blocked = NoCall
    /\ last = [Call("init") EXCEPT !.depth = 0]

Set == \E value \in SetValues, p \in Polls : RegSet(value, p)

Get == RegGet

NextReg == Connect \/ LazyStart \/ LazyEnd \/ Set \/ Get

SpecReg == InitReg /\ [][NextReg]_vars

(***************************************************************************)
(* Specification of the helpers of a register                              *)
(***************************************************************************)
OrSet == RegHelper("or_set", <<1>>, NoPoll)

SetBit == \E value \in {0, 1}, p \in Polls : RegHelper("set_bit", <<7, value>>, p)

SetMask == \E args \in {<<255, 15>>, <<5, 60>>} : RegHelper("set_mask", args, NoPoll)

GetBit == RegGetBit(7)

HelperSet == RegSet(reg.max_value, NoPoll)

HelperLazyStart == lazy_stack = 0 /\ LazyStart

NextHelper ==
    \/ Connect \/ HelperLazyStart \/ LazyEnd \/ HelperSet \/ OrSet \/ SetBit \/ SetMask
    \/ GetBit

SpecHelper == InitReg /\ [][NextHelper]_vars

(***************************************************************************)
(* Register.write / Register.read: raw transfers                           *)
(***************************************************************************)
\* (a variant without the check of the Writable capability)
RawWriteError_Unchecked == NoExc

\* The check of Register.write before it writes the bus
RawWriteError ==
    IF ~reg.w THEN Exc("RuntimeError", "Register cannot be written") ELSE NoExc

\* The check of Register.read before it reads the bus
RawReadError ==
    IF ~reg.r THEN Exc("RuntimeError", "Register cannot be read") ELSE NoExc

\* Register.write(data, poll, poll_mask, poll_value)
RegWrite(data, p) ==
    /\ Len(rx) = 0 \/ Len(rx) + NChunks(Len(data)) <= MaxWire
    /\ Len(lazy_writes) = 0 \/ Len(lazy_writes) + NChunks(Len(data)) <= MaxQueue
    /\ LET o == [Call("Register.write") EXCEPT !.data = data, !.poll = p]
       IN  IF RawWriteError # NoExc
           THEN /\ last' = [o EXCEPT !.exc = RawWriteError]
                /\ UNCHANGED <<lazy_writes, rx, issued>>
           ELSE \E acks \in WriteAnswers(Len(data), HelperKinds) :
                \E b \in {bus_write(o, reg.address, data, p, acks)} :
                       /\ lazy_writes' = b.lazy_writes
                       /\ rx' = b.rx
                       /\ issued' = b.issued
                       /\ last' = b.o
    /\ UNCHANGED <<liveVars, callerVars, section, timeoutVars, ser, debug, lazy_stack, reg, cache>>

\* Register.read(size, poll, poll_mask, poll_value)
RegRead(size, p) ==
    /\ LET o == [Call("Register.read") EXCEPT !.size = size, !.poll = p]
       IN  IF RawReadError # NoExc
           THEN /\ last' = [o EXCEPT !.exc = RawReadError]
                /\ UNCHANGED rx
           ELSE \E resp \in ReadAnswers(size, HelperKinds, {160}) :
                \E b \in {bus_read(o, reg.address, size, p, resp)} :
                       /\ rx' = b.rx
                       /\ last' = b.o
    /\ UNCHANGED <<liveVars, callerVars, section, timeoutVars, ser, debug, lazy_stack, lazy_writes, issued,
                   reg, cache>>

(***************************************************************************)
(* Specification of one register with raw transfers                        *)
(***************************************************************************)
\* Raw data: as many bytes as the register is wide, and one more
RawData == {Payload(16, reg.wideness), Payload(16, reg.wideness + 1)}

RawWrite == \E data \in RawData, p \in Polls : RegWrite(data, p)

RawRead == \E size \in 1..2 : RegRead(size, NoPoll)

RawSet == RegSet(reg.max_value, NoPoll)

NextRaw ==
    \/ Connect \/ HelperLazyStart \/ LazyEnd \/ RawSet \/ Get \/ RawWrite \/ RawRead

SpecRaw == InitReg /\ [][NextRaw]_vars

(***************************************************************************)
(* Specification of the bus engine with transfers of several chunks        *)
(***************************************************************************)
ChunkLens ==
    {0, 1, MAX_CHUNK, MAX_CHUNK + 1, (MaxChunks - 1) * MAX_CHUNK + 90}

ChunkKinds == {"full", "short"}

ChunkWrite == \E n \in ChunkLens, p \in Polls :
                 Write(517, Payload(16, n), p, ChunkKinds)

ChunkRead == \E n \in ChunkLens, p \in Polls :
                Read(517, n, p, ChunkKinds, {16})

\* One level of lazy section is enough for the chunking
ChunkLazyStart == lazy_stack = 0 /\ LazyStart

NextChunk == Connect \/ ChunkLazyStart \/ LazyEnd \/ ChunkWrite \/ ChunkRead

SpecChunk == Init /\ [][NextChunk]_vars


(***************************************************************************)
(* Reading the datagrams a call has sent                                   *)
(***************************************************************************)
DgBit(d, i) == (d[1] \div Pow(2, i)) % 2

DgAddr(d) == d[2] * BYTE_LIMIT + d[3]

DgHeaderLen(d) == 3 + 4 * DgBit(d, 2) + DgBit(d, 1)

DgSize(d) == IF DgBit(d, 1) = 1 THEN d[DgHeaderLen(d)] ELSE 1

DgPayload(d) == Drop(d, DgHeaderLen(d))

RECURSIVE Concat(_)
Concat(ss) == IF ss = <<>> THEN <<>> ELSE Head(ss) \o Concat(Tail(ss))

\* The sizes a call compared acknowledgments with, in order
Expected(o) == [i \in 1..Len(o.checks) |-> o.checks[i][1]]

IsSuffix(s, t) == Len(s) <= Len(t) /\ s = Drop(t, Len(t) - Len(s))

\* An accepted lazy_end has just run
LazyEndDone == last.op = "lazy_end" /\ last.exc.type # "RuntimeError"

(***************************************************************************)
(* Scaffold: the signal matrices                                           *)
(***************************************************************************)
IO_D_COUNT == 16

UART_COUNT == 2

PULSE_GENERATOR_COUNT == 4

I2C_COUNT == 1

ADDR_MTXR_BASE == 61696

ADDR_MTXL_BASE == 61440

\* str(i) for the indexes of the tables
Digits(i) ==
    LET d == <<"0", "1", "2", "3", "4", "5", "6", "7", "8", "9">>
    IN  IF i < 10 THEN d[i + 1] ELSE d[(i \div 10) + 1] \o d[(i % 10) + 1]

IoD(i) == "/io/d" \o Digits(i)

UartRx(i) == <<"/uart" \o Digits(i) \o "/rx">>

PgenStart(i) == "/pgen" \o Digits(i) \o "/start"

I2cIn(i) == <<"/i2c" \o Digits(i) \o "/sda_in", "/i2c" \o Digits(i) \o "/scl_in">>

UartOut(i) == <<"/uart" \o Digits(i) \o "/tx", "/uart" \o Digits(i) \o "/trigger">>

PgenOut(i) == "/pgen" \o Digits(i) \o "/out"

I2cOut(i) ==
    <<"/i2c" \o Digits(i) \o "/sda_out", "/i2c" \o Digits(i) \o "/scl_out",
      "/i2c" \o Digits(i) \o "/trigger">>

\* FPGA left matrix input signals
mtxl_in ==
    <<"0", "1", "/io/a0", "/io/a1", "/io/b0", "/io/b1", "/io/c0", "/io/c1">>
    \o [i \in 1..IO_D_COUNT |-> IoD(i - 1)]

\* FPGA left matrix output signals
mtxl_out ==
    Concat([i \in 1..UART_COUNT |-> UartRx(i - 1)]) \o <<"/iso7816/io_in">>
    \o [i \in 1..PULSE_GENERATOR_COUNT |-> PgenStart(i - 1)] \o Concat([i \in 1..I2C_COUNT |-> I2cIn(i - 1)])

\* FPGA right matrix input signals
mtxr_in ==
    <<"z", "0", "1", "/power/dut_trigger", "/power/platform_trigger">>
    \o Concat([i \in 1..UART_COUNT |-> UartOut(i - 1)])
    \o <<"/iso7816/io_out", "/iso7816/clk", "/iso7816/trigger">>
    \o [i \in 1..PULSE_GENERATOR_COUNT |-> PgenOut(i - 1)] \o Concat([i \in 1..I2C_COUNT |-> I2cOut(i - 1)])

\* FPGA right matrix output signals
mtxr_out ==
    <<"/io/a0", "/io/a1", "/io/b0", "/io/b1", "/io/c0", "/io/c1">>
    \o [i \in 1..IO_D_COUNT |-> IoD(i - 1)]

\* x in table
Contains(table, x) == \E i \in 1..Len(table) : table[i] = x

\* (a variant that counts positions from 1)
Index_FromOne(table, x) ==
    CHOOSE i \in 1..Len(table) :
        table[i] = x /\ \A j \in 1..(i - 1) : table[j] # x

\* table.index(x) for an x the table holds: the first position, from 0
Index(table, x) ==
    CHOOSE i \in 0..(Len(table) - 1) :
        table[i + 1] = x /\ \A j \in 1..i : table[j] # x

\* Arguments of sig_connect: a Signal of this board or of another one, an
\* int, None, or a value of another type (here a str)
SignalArg(path) == [type |-> "Signal", own |-> TRUE, path |-> path, n |-> 0]

ForeignSignal(path) == [type |-> "Signal", own |-> FALSE, path |-> path, n |-> 0]

IntArg(n) == [type |-> "int", own |-> TRUE, path |-> "", n |-> n]

NoneArg == [type |-> "NoneType", own |-> TRUE, path |-> "", n |-> 0]

StrArg(path) == [type |-> "str", own |-> TRUE, path |-> path, n |-> 0]

\* Scaffold.__signal_to_path: the path, or the exception raised
signal_to_path(signal) ==
    IF signal.type = "Signal"
    THEN IF ~signal.own
         THEN [exc |-> Exc("ValueError", "Signal belongs to another Scaffold instance"),
               path |-> ""]
         ELSE [exc |-> NoExc, path |-> signal.path]
    ELSE IF signal.type = "int"
    THEN IF signal.n \notin {0, 1}
         THEN [exc |-> Exc("ValueError", "Invalid signal value"), path |-> ""]
         ELSE [exc |-> NoExc, path |-> Digits(signal.n)]
    ELSE IF signal.type = "NoneType"
    THEN [exc |-> NoExc, path |-> "z"]
    ELSE [exc |-> Exc("ValueError", "Invalid signal type"), path |-> ""]

\* The matrix a destination belongs to, the right one tested first
MatrixOf(dest_path) ==
    IF Contains(mtxr_out, dest_path) THEN "mtxr"
    ELSE IF Contains(mtxl_out, dest_path) THEN "mtxl"
    ELSE "none"

OutputTable(dest_path) == IF MatrixOf(dest_path) = "mtxr" THEN mtxr_out ELSE mtxl_out

\* (a variant that looks the source up in both input tables)
InputTable_Both(dest_path) ==
    IF MatrixOf(dest_path) = "mtxr" THEN mtxr_in \o mtxl_in ELSE mtxl_in \o mtxr_in

\* The input table the source is looked up in
InputTable(dest_path) == IF MatrixOf(dest_path) = "mtxr" THEN mtxr_in ELSE mtxl_in

MatrixBase(dest_path) ==
    IF MatrixOf(dest_path) = "mtxr" THEN ADDR_MTXR_BASE ELSE ADDR_MTXL_BASE

\* (a variant that raises the exception of an unknown source)
InvalidDestination_AsValueError(dest_path) ==
    Exc("ValueError", "Invalid destination path")

\* The else branch of sig_connect
InvalidDestination(dest_path) == Exc("RuntimeError", "Invalid destination path")

\* list.index raises ValueError for a value the list does not hold
NotInList == Exc("ValueError", "is not in list")

\* The exception sig_connect raises before it calls bus.write, if any
SigConnectError(a, b) ==
    LET d == signal_to_path(a)
        c == signal_to_path(b)
    IN  IF d.exc # NoExc THEN d.exc
        ELSE IF c.exc # NoExc THEN c.exc
        ELSE IF MatrixOf(d.path) = "none" THEN InvalidDestination(d.path)
        ELSE IF ~Contains(InputTable(d.path), c.path) THEN NotInList
        ELSE NoExc

\* bytes([data]) for an int in 0..255
IntToBytes(data) == <<data>>

\* Scaffold.sig_connect(a, b)
sig_connect(a, b) ==
    /\ Len(rx) = 0 \/ Len(rx) + 1 <= MaxWire
    /\ Len(lazy_writes) = 0 \/ Len(lazy_writes) + 1 <= MaxQueue
    /\ LET o == [Call("sig_connect") EXCEPT !.args = <<a, b>>]
           dest_path == signal_to_path(a).path
           src_path == signal_to_path(b).path
       IN  IF SigConnectError(a, b) # NoExc
           THEN /\ last' = [o EXCEPT !.exc = SigConnectError(a, b)]
                /\ UNCHANGED busVars
           ELSE LET src_index == Index(InputTable(dest_path), src_path)
                    dst_index == Index(OutputTable(dest_path), dest_path)
                IN  \E acks \in WriteAnswers(1, AckKinds) :
                    \E w \in {bus_write(o, MatrixBase(dest_path) + dst_index,
                                        IntToBytes(src_index), NoPoll, acks)} :
                       /\ lazy_writes' = w.lazy_writes
                       /\ rx' = w.rx
                       /\ issued' = w.issued
                       /\ last' = w.o
                       /\ UNCHANGED lazy_stack
    /\ UNCHANGED <<liveVars, callerVars, section, timeoutVars, ser, debug, reg, cache>>

(***************************************************************************)
(* Specification of the signal matrices                                    *)
(***************************************************************************)
\* Destinations offered to sig_connect: the first and last entry of each
\* output table, and values that are in none
DestArgs ==
    {SignalArg("/io/a0"), SignalArg("/io/d15"), SignalArg("/uart0/rx"),
     SignalArg("/i2c0/scl_in"), SignalArg("/uart0/tx"), IntArg(0), NoneArg,
     ForeignSignal("/io/a0")}

\* Sources offered to sig_connect: entries of each input table, of both, and
\* values that are in none
SrcArgs ==
    {NoneArg, IntArg(0), IntArg(1), IntArg(2), SignalArg("/uart0/tx"),
     SignalArg("/i2c0/trigger"), SignalArg("/io/a0"), SignalArg("/io/d15"),
     SignalArg("/uart0/rx"), StrArg("/io/a0")}

SigConnect == \E a \in DestArgs, b \in SrcArgs : sig_connect(a, b)

NextMatrix == Connect \/ ChunkLazyStart \/ LazyEnd \/ SigConnect

SpecMatrix == Init /\ [][NextMatrix]_vars

(***************************************************************************)
(* Scaffold: the timeout setting                                           *)
(***************************************************************************)
\* __TIMEOUT_UNIT = 3.0 / SYS_FREQ seconds, in nanoseconds
TIMEOUT_UNIT == 30

\* Unit counts are Python ints that may exceed 32 bits: the count n is the
\* pair of its digits in base WORD, n = hi * WORD + lo with lo in 0..WORD-1
\* (hi < 0 for a negative count)
WORD == 65536

Wide(n) == [hi |-> n \div WORD, lo |-> n % WORD]

\* -w
WideNeg(w) ==
    IF w.lo = 0 THEN [hi |-> -w.hi, lo |-> 0]
    ELSE [hi |-> -w.hi - 1, lo |-> WORD - w.lo]

\* Timeout values in seconds are Python floats.  A float is represented by
\* how it was made: a literal of s seconds and x nanoseconds (of the same
\* sign) given by the caller, or the product x * __TIMEOUT_UNIT computed by
\* the timeout getter from the unit count x.  The getter may also return a
\* RuntimeError object.
Literal(s, x) == [type |-> "float", of |-> "literal", s |-> s, x |-> x]

Product(x) == [type |-> "float", of |-> "units", s |-> 0, x |-> x]

NotSetYet == [type |-> "RuntimeError", of |-> "Timeout not set yet", s |-> 0, x |-> 0]

Abs(a) == IF a >= 0 THEN a ELSE -a

\* The number of whole units in s seconds and x nanoseconds (s, x >= 0):
\* (s * 10^9 + x) \div TIMEOUT_UNIT, computed digit by digit
WholeUnits(s, x) ==
    LET per_second == 1000000000 \div TIMEOUT_UNIT
        rest == (s * (1000000000 % TIMEOUT_UNIT) + x) \div TIMEOUT_UNIT
        low == s * (per_second % WORD) + rest
    IN  [hi |-> s * (per_second \div WORD) + low \div WORD, lo |-> low % WORD]

\* The unit counts n below 4096 for which the double (n * 3e-08) / 3e-08 is
\* below n (IEEE 754 binary64, round to nearest even)
RoundsDown == {511, 1022, 2037, 2043, 2044, 4074, 4079, 4081, 4086, 4088, 4093, 4095}

\* int(value / self.__TIMEOUT_UNIT) in double precision, truncated towards
\* zero, for the literals of Timeouts (none within rounding distance of a
\* multiple of the unit) and for the products of the unit counts they give
ToUnits(value) ==
    IF value.of = "literal"
    THEN IF value.s < 0 \/ value.x < 0
         THEN WideNeg(WholeUnits(Abs(value.s), Abs(value.x)))
         ELSE WholeUnits(value.s, value.x)
    ELSE IF value.x.hi = 0 /\ value.x.lo \in RoundsDown THEN Wide(value.x.lo - 1)
    ELSE value.x

\* (a variant without the upper limit)
SetTimeoutError_NoUpperLimit(value) ==
    IF value.hi < 0 THEN Exc("ValueError", "Timeout value out of range") ELSE NoExc

\* The range check of set_timeout: value < 0 or value > 0xffffffff
SetTimeoutError(value) ==
    IF value.hi < 0 \/ value.hi > WORD - 1
    THEN Exc("ValueError", "Timeout value out of range")
    ELSE NoExc

\* self.ser.write on a bus that is not connected: ser is None
NoSerial == Exc("AttributeError", "'NoneType' object has no attribute 'write'")

\* The datagram of set_timeout: 0x08, then the value on 4 bytes, big-endian
TimeoutDatagram(value) == <<8>> \o ToBytes(value.hi, 2) \o ToBytes(value.lo, 2)

\* ScaffoldBus.set_timeout(value) on the session t (the fields ser,
\* cache_timeout, timeout_sent and the observation o)
set_timeout(t, value) ==
    IF SetTimeoutError(value) # NoExc THEN [t EXCEPT !.o.exc = SetTimeoutError(value)]
    ELSE IF ~t.ser THEN [t EXCEPT !.o.exc = NoSerial]
    ELSE [t EXCEPT !.o.sent = Append(@, TimeoutDatagram(value)),
                   !.timeout_sent = <<value>>]

\* The getter of Scaffold.timeout: the RuntimeError is returned, not raised
timeout_get(c) == IF c = <<>> THEN NotSetYet ELSE Product(c[1])

\* The setter of Scaffold.timeout on the session t
timeout_set(t, value) ==
    IF value.type # "float"
    THEN [t EXCEPT !.o.exc = Exc("TypeError", "unsupported operand type(s) for /")]
    ELSE LET n == ToUnits(value)
             t1 == set_timeout(t, n)
         IN  IF t1.o.exc # NoExc THEN t1 ELSE [t1 EXCEPT !.cache_timeout = <<n>>]

\* The session as the operators above see it
Session(o) ==
    [ser |-> ser, cache_timeout |-> cache_timeout, timeout_sent |-> timeout_sent,
     o |-> o]

\* Scaffold.connect(dev) with a board that passes the version check: the
\* timeout is set to the int 0 (the reads and writes of the version check and
\* of the resets of the modules are left out)
scaffold_connect(t) == timeout_set([t EXCEPT !.ser = TRUE], Literal(0, 0))

\* self.__cache_timeout = None, executed by __init__ after the connection
CacheTimeoutAfterInit(c) == <<>>

\* Scaffold.__init__(dev): dev is <<>> for None
scaffold_init(dev) ==
    LET t0 == [ser |-> FALSE, cache_timeout |-> <<>>, timeout_sent |-> <<>>,
               o |-> [Call("init") EXCEPT !.depth = 0, !.args = <<dev>>]]
        t1 == IF dev # <<>> THEN scaffold_connect(t0) ELSE t0
    IN  [t1 EXCEPT !.cache_timeout = CacheTimeoutAfterInit(@)]

\* list.pop() of an empty list raises IndexError
ListPopError(stack) ==
    IF stack = <<>> THEN Exc("IndexError", "pop from empty list") ELSE NoExc

\* (a variant without the check of the stack)
PopError_Unchecked == NoExc

\* The check of pop_timeout
PopError ==
    IF Len(timeout_stack) = 0
    THEN Exc("RuntimeError", "Timeout setting stack is empty")
    ELSE NoExc

\* Scaffold.connect(dev), called on a session created without a device
ScaffoldConnect ==
    /\ ~ser
    /\ \E t \in {scaffold_connect(Session(Call("connect")))} :
          /\ ser' = t.ser
          /\ cache_timeout' = t.cache_timeout
          /\ timeout_sent' = t.timeout_sent
          /\ last' = t.o
    /\ UNCHANGED <<liveVars, callerVars, section, debug, busVars, reg, cache, timeout_stack, pushed>>

\* value = scaffold.timeout
GetTimeout ==
    /\ last' = [Call("timeout") EXCEPT !.ret = <<timeout_get(cache_timeout)>>]
    /\ UNCHANGED <<liveVars, callerVars, section, ser, debug, busVars, reg, cache, timeoutVars>>

\* scaffold.timeout = value
SetTimeout(value) ==
    /\ \E t \in {timeout_set(Session([Call("timeout=") EXCEPT !.args = <<value>>]), value)} :
          /\ cache_timeout' = t.cache_timeout
          /\ timeout_sent' = t.timeout_sent
          /\ last' = t.o
    /\ UNCHANGED <<liveVars, callerVars, section, ser, debug, busVars, reg, cache, timeout_stack, pushed>>

\* Scaffold.push_timeout(value): the entry is appended before the setter runs
push_timeout(value) ==
    /\ Len(timeout_stack) < MaxStack
    /\ timeout_stack' = Append(timeout_stack, timeout_get(cache_timeout))
    /\ pushed' = Append(pushed, timeout_sent)
    /\ \E t \in {timeout_set(Session([Call("push_timeout") EXCEPT !.args = <<value>>]), value)} :
          /\ cache_timeout' = t.cache_timeout
          /\ timeout_sent' = t.timeout_sent
          /\ last' = t.o
    /\ UNCHANGED <<liveVars, callerVars, section, ser, debug, busVars, reg, cache>>

\* Scaffold.pop_timeout(): the entry is removed before the setter runs
pop_timeout ==
    /\ LET o == Call("pop_timeout")
       IN  IF PopError # NoExc
           THEN /\ last' = [o EXCEPT !.exc = PopError]
                /\ UNCHANGED timeoutVars
           ELSE IF ListPopError(timeout_stack) # NoExc
           THEN /\ last' = [o EXCEPT !.exc = ListPopError(timeout_stack)]
                /\ UNCHANGED timeoutVars
           ELSE \E t \in {timeout_set(Session(o), timeout_stack[Len(timeout_stack)])} :
                   /\ timeout_stack' = Prefix(timeout_stack, Len(timeout_stack) - 1)
                   /\ pushed' = Prefix(pushed, Len(pushed) - 1)
                   /\ cache_timeout' = t.cache_timeout
                   /\ timeout_sent' = t.timeout_sent
                   /\ last' = t.o
    /\ UNCHANGED <<liveVars, callerVars, section, ser, debug, busVars, reg, cache>>

(***************************************************************************)
(* Specification of the timeout setting                                    *)
(***************************************************************************)
\* Scaffold(dev): no device, or the path of a serial port
Devs == {<<>>, <<"/dev/scaffold">>}

\* Timeouts offered: 0, 15.335 us (511 units), 0.5 s, 128 s (4266666666
\* units), 129 s (4300000000 units, above 0xffffffff) and -1 s
Timeouts ==
    {Literal(0, 0), Literal(0, 15335), Literal(0, 500000000), Literal(128, 0),
     Literal(129, 0), Literal(-1, 0)}

InitTimeout ==
    /\ debug = TRUE
    /\ lazy_stack = 0
    /\ lazy_writes = <<>>
    /\ rx = <<>>
    /\ issued = <<>>
    /\ reg = NoReg
    /\ cache = <<>>
    /\ timeout_stack = <<>>
    /\ pushed = <<>>
    /\ section = NoSection
    /\ device = 0
    /\ callers = NoCallers
    /\ pending = <<>>
    /\ blocked = NoCall
    /\ \E dev \in Devs :
       \E t \in {scaffold_init(dev)} :
          /\ ser = t.ser
          /\ cache_timeout = t.cache_timeout
          /\ timeout_sent = t.timeout_sent
          /\ last = t.o

PushTimeout == \E value \in Timeouts : push_timeout(value)

PopTimeout == pop_timeout

SetTimeoutValue == \E value \in Timeouts : SetTimeout(value)

NextTimeout ==
    ScaffoldConnect \/ GetTimeout \/ SetTimeoutValue \/ PushTimeout \/ PopTimeout

SpecTimeout == InitTimeout /\ [][NextTimeout]_vars

(***************************************************************************)
(* Specification of the bus engine with set_timeout                        *)
(***************************************************************************)
\* bus.set_timeout(value), called directly
\* (a variant that queues the datagram like a write of a lazy section)
bus_set_timeout_Queued(value) ==
    /\ \E t \in {set_timeout(Session([Call("set_timeout") EXCEPT !.args = <<value>>]), value)} :
          /\ timeout_sent' = t.timeout_sent
          /\ last' = t.o
    /\ lazy_writes' = IF lazy_stack > 0 THEN Append(lazy_writes, 5) ELSE lazy_writes
    /\ UNCHANGED <<liveVars, callerVars, section, ser, debug, lazy_stack, rx, issued, reg, cache,
                   cache_timeout, timeout_stack, pushed>>

\* ScaffoldBus.set_timeout called on the bus: no answer is read, and the
\* board sends none for this command
bus_set_timeout(value) ==
    /\ \E t \in {set_timeout(Session([Call("set_timeout") EXCEPT !.args = <<value>>]), value)} :
          /\ timeout_sent' = t.timeout_sent
          /\ last' = t.o
    /\ UNCHANGED <<liveVars, callerVars, section, ser, debug, busVars, reg, cache, cache_timeout, timeout_stack, pushed>>

\* Values offered to set_timeout: 0x01020304, -1 and 0x100000000
TimeoutValues == {Wide(16909060), Wide(-1), [hi |-> WORD, lo |-> 0]}

BusSetTimeout == \E value \in TimeoutValues : bus_set_timeout(value)

NextBus == Connect \/ LazyStart \/ LazyEnd \/ BusWrite \/ BusRead \/ BusSetTimeout

SpecBus == Init /\ [][NextBus]_vars

(***************************************************************************)
(* ScaffoldBusLazySection: blocks run under 'with bus.lazy_section()'      *)
(***************************************************************************)
\* An exception raised inside an open block is on its way out: python runs
\* nothing more of the bodies, only the __exit__ of every open block.
Propagating ==
    Len(section.depths) > 0 /\ (section.exc # NoExc \/ last.exc # NoExc)

\* ScaffoldBusLazySection.__enter__: bus.lazy_start()
SectionEnter ==
    /\ ~Propagating
    /\ lazy_stack < MaxDepth
    /\ lazy_stack' = lazy_stack + 1
    /\ issued' = IF lazy_stack = 0 THEN <<>> ELSE issued
    /\ last' = Call("lazy_start")
    /\ section' = [depths |-> Append(section.depths, lazy_stack), exc |-> NoExc]
    /\ UNCHANGED <<liveVars, callerVars, timeoutVars, ser, debug, lazy_writes, rx, reg, cache>>

\* The value python hands to __exit__: the exception leaving the body
ExitValue == IF section.exc # NoExc THEN section.exc ELSE last.exc

\* ScaffoldBusLazySection.__exit__: bus.lazy_end(), whatever leaves the body.
\* It returns None, so the exception of the body goes on to the outer block.
SectionExit ==
    /\ Len(section.depths) > 0
    /\ IF LazyEndError # NoExc
       THEN /\ last' = [Call("lazy_end") EXCEPT !.exc = LazyEndError]
            /\ UNCHANGED <<lazy_stack, lazy_writes, rx>>
       ELSE \E b \in {bus_lazy_end(Call("lazy_end"))} :
               /\ lazy_stack' = DepthAfterLazyEnd(b.o.exc)
               /\ lazy_writes' = b.lazy_writes
               /\ rx' = b.rx
               /\ last' = b.o
    /\ section' = [depths |-> SubSeq(section.depths, 1, Len(section.depths) - 1),
                   exc |-> ExitValue]
    /\ UNCHANGED <<liveVars, callerVars, timeoutVars, ser, debug, issued, reg, cache>>

\* The calls of a body: writes, reads and inner blocks; direct calls of
\* lazy_start and lazy_end are made outside the blocks only.
SectionWrite == ~Propagating /\ BusWrite

SectionRead == ~Propagating /\ BusRead

SectionLazyStart == Len(section.depths) = 0 /\ LazyStart

SectionLazyEnd == Len(section.depths) = 0 /\ LazyEnd

NextSection ==
    \/ Connect \/ SectionEnter \/ SectionExit \/ SectionWrite \/ SectionRead
    \/ SectionLazyStart \/ SectionLazyEnd

SpecSection == Init /\ [][NextSection]_vars

(***************************************************************************)
(* Specification of reads answered with any acknowledgment byte            *)
(***************************************************************************)
\* res[-1] is a byte: read compares it with chunk_size and slices with it
AckBytes == 0..(BYTE_LIMIT - 1)

AckSizes == {1, 2}

\* The board's responses to a read of size bytes: every chunk but the last
\* fully acknowledged, the last one followed by the byte ack
AnyAnswer(size, ack) ==
    [k \in 1..NChunks(size) |->
        Payload(16, ChunkLen(size, k))
            \o <<IF k < NChunks(size) THEN ChunkLen(size, k) ELSE ack>>]

AckRead ==
    /\ \E size \in AckSizes, p \in Polls, ack \in AckBytes :
        \E b \in {bus_read(Call("read"), 517, size, p, AnyAnswer(size, ack))} :
              /\ rx' = b.rx
              /\ last' = b.o
    /\ UNCHANGED <<liveVars, callerVars, section, timeoutVars, ser, debug, lazy_stack, lazy_writes, issued,
                   reg, cache>>

NextAck == Connect \/ AckRead

SpecAck == Init /\ [][NextAck]_vars

(***************************************************************************)
(* Two callers of the helpers of one register                              *)
(***************************************************************************)
\* (a variant in which set works on the value the board holds at that time)
HelperCurrent_Reread(c) == device

\* The local 'current' of set_mask (the value of self.get() in set_bit):
\* read before the call of set, not read again by it
HelperCurrent(c) == callers[c].current

\* The board's answer to the read of the register: its byte and the count 1
DeviceAnswer == <<<<device, 1>>>>

\* First half of set_mask / set_bit run by caller c: current = self.get()
HelperGet(c, call) ==
    /\ callers[c].pc # "read"
    /\ \E g \in {reg_get([Call(call.op) EXCEPT !.args = call.args], DeviceAnswer)} :
          /\ last' = g.b.o
          /\ rx' = g.b.rx
          /\ cache' = g.cache
          /\ callers' = [callers EXCEPT ![c] =
                IF g.b.o.exc # NoExc THEN Idle
                ELSE [pc |-> "read", op |-> call.op, args |-> call.args,
                      current |-> g.value]]
    /\ UNCHANGED <<liveVars, device, section, timeoutVars, ser, debug, lazy_stack,
                   lazy_writes, issued, reg>>

\* Second half run by caller c: self.set(f(current), poll...); the board
\* stores the byte it acknowledges
HelperPut(c) ==
    /\ callers[c].pc = "read"
    /\ LET op == callers[c].op
           args == callers[c].args
           g == [b |-> [lazy_writes |-> lazy_writes, rx |-> rx, issued |-> issued,
                        o |-> [Call(op) EXCEPT !.args = args]],
                 cache |-> cache, value |-> HelperCurrent(c)]
       IN  \E w \in {reg_set(g, NewValue(op, args, g.value), NoPoll, <<1>>)} :
              /\ last' = w.b.o
              /\ rx' = w.b.rx
              /\ lazy_writes' = w.b.lazy_writes
              /\ issued' = w.b.issued
              /\ cache' = w.cache
              /\ device' = IF w.b.o.exc = NoExc THEN w.b.o.value ELSE device
              /\ callers' = [callers EXCEPT ![c].pc =
                                IF w.b.o.exc = NoExc THEN "done" ELSE "idle"]
    /\ UNCHANGED <<liveVars, section, timeoutVars, ser, debug, lazy_stack, reg>>

(***************************************************************************)
(* Specification of two callers on one readable volatile register          *)
(***************************************************************************)
\* The calls of each caller: their masks are disjoint
CallerCalls(c) ==
    IF c = 1
    THEN {[op |-> "set_mask", args |-> <<1, 1>>], [op |-> "set_bit", args |-> <<0, 0>>]}
    ELSE {[op |-> "set_mask", args |-> <<6, 6>>], [op |-> "set_bit", args |-> <<7, 1>>]}

\* Bytes the register of the board may hold at first
DeviceValues == {0, 1, 129}

InitRace ==
    /\ ser = FALSE
    /\ debug \in BOOLEAN
    /\ lazy_stack = 0
    /\ lazy_writes = <<>>
    /\ rx = <<>>
    /\ issued = <<>>
    /\ reg = Register(Mode(TRUE, TRUE, TRUE), 1028, 1, 0, 255)
    /\ cache = <<>>
    /\ cache_timeout = <<>>
    /\ timeout_stack = <<>>
    /\ timeout_sent = <<>>
    /\ pushed = <<>>
    /\ section = NoSection
    /\ device \in DeviceValues
    /\ callers = NoCallers
    /\ pending = <<>>
    /\ blocked = NoCall
    /\ last = [Call("init") EXCEPT !.depth = 0]

CallerGet == \E c \in 1..2 : \E call \in CallerCalls(c) : HelperGet(c, call)

CallerPut == \E c \in 1..2 : HelperPut(c)

NextRace == Connect \/ CallerGet \/ CallerPut

SpecRace == InitRace /\ [][NextRace]_vars

(***************************************************************************)
(* ScaffoldBus.is_connected                                                *)
(***************************************************************************)
\* The names an instance of ScaffoldBus answers to: the attributes set by
\* __init__ (the two private ones under their mangled names), the class
\* attribute and the methods
BusNames ==
    {"ser", "_ScaffoldBus__lazy_writes", "_ScaffoldBus__lazy_stack", "MAX_CHUNK",
     "connect", "prepare_datagram", "write", "read", "set_timeout", "is_connected",
     "lazy_start", "lazy_end", "lazy_section"}

\* self.<name> is None, for the names that can be None
IsNone(name) == name = "ser" /\ ~ser

\* 'return self.set is not None'
is_connected ==
    IF "set" \notin BusNames
    THEN [Call("is_connected") EXCEPT
            !.exc = Exc("AttributeError", "'ScaffoldBus' object has no attribute 'set'")]
    ELSE [Call("is_connected") EXCEPT !.ret = <<~IsNone("set")>>]

IsConnected ==
    /\ last' = is_connected
    /\ UNCHANGED <<liveVars, callerVars, section, timeoutVars, ser, debug, busVars, reg, cache>>

(***************************************************************************)
(* Specification of the bus engine with the connection query               *)
(***************************************************************************)
NextQuery == NextBus \/ IsConnected

SpecQuery == Init /\ [][NextQuery]_vars

(***************************************************************************)
(* The bus engine with the serial link in time: a call stops where it      *)
(* waits in ser.read (the port is opened without a timeout, so ser.read    *)
(* returns when all the bytes asked for have arrived), and the board       *)
(* answers the datagrams in its own time                                   *)
(***************************************************************************)
\* write from 'while remaining:' at depth 0: one chunk is sent, the board
\* owes its acknowledgment, the call waits in ser.read(1)
WriteSend(o, c, kinds) ==
    LET chunk_size == ChunkSize(c.remaining)
        datagram == prepare_datagram(1, c.addr, chunk_size, c.p)
                        \o ChunkData(c.data, c.offset, chunk_size)
    IN  \E kind \in kinds :
           /\ last' = [o EXCEPT !.sent = Append(@, datagram)]
           /\ pending' = Append(pending, <<AckValue(kind, chunk_size)>>)
           /\ blocked' = [c EXCEPT !.need = 1, !.chunk_size = chunk_size]

\* read from 'while remaining:': one request is sent, the board owes the
\* chunk and its count, the call waits in ser.read(chunk_size+1)
ReadSend(o, c, kinds) ==
    LET chunk_size == ChunkSize(c.remaining)
        datagram == prepare_datagram(0, c.addr, chunk_size, c.p)
    IN  \E kind \in kinds :
           /\ last' = [o EXCEPT !.sent = Append(@, datagram)]
           /\ pending' = Append(pending,
                            Payload(16, chunk_size) \o <<AckValue(kind, chunk_size)>>)
           /\ blocked' = [c EXCEPT !.need = chunk_size + 1, !.chunk_size = chunk_size]

\* ScaffoldBus.write up to its first ser.read; inside a lazy-update section
\* it sends every chunk and returns
LiveWrite(addr, data, p, kinds) ==
    /\ blocked = NoCall
    /\ Len(rx) + Len(pending) = 0
          \/ Len(rx) + Len(pending) + NChunks(Len(data)) <= MaxWire
    /\ Len(lazy_writes) = 0 \/ Len(lazy_writes) + NChunks(Len(data)) <= MaxQueue
    /\ LET o == [Call("write") EXCEPT !.addr = addr, !.data = data, !.poll = p]
           N == Len(data)
           err == PrepareError(1, addr, ChunkSize(N), p)
           c == [NoCall EXCEPT !.op = "write", !.addr = addr, !.data = data,
                               !.p = p, !.remaining = N]
       IN  IF ~ser \/ N = 0 \/ err # NoExc
           THEN /\ last' = [o EXCEPT !.exc = IF ~ser THEN NotConnected
                                             ELSE IF N = 0 THEN NoExc ELSE err]
                /\ UNCHANGED <<pending, blocked, lazy_writes, issued>>
           ELSE IF lazy_stack = 0
           THEN WriteSend(o, c, kinds) /\ UNCHANGED <<lazy_writes, issued>>
           ELSE \E acks \in WriteAnswers(N, kinds) :
                   /\ last' = [o EXCEPT !.sent =
                                 [k \in 1..NChunks(N) |->
                                     prepare_datagram(1, addr, ChunkLen(N, k), p)
                                        \o ChunkData(data, (k - 1) * MAX_CHUNK, ChunkLen(N, k))]]
                   /\ pending' = pending \o [k \in 1..NChunks(N) |-> <<acks[k]>>]
                   /\ lazy_writes' = lazy_writes \o [k \in 1..NChunks(N) |-> ChunkLen(N, k)]
                   /\ issued' = issued \o [k \in 1..NChunks(N) |-> ChunkLen(N, k)]
                   /\ blocked' = NoCall
    /\ UNCHANGED <<callerVars, section, timeoutVars, ser, debug, lazy_stack, rx, reg, cache>>

\* ScaffoldBus.read up to its first ser.read
LiveRead(addr, size, p, kinds) ==
    /\ blocked = NoCall
    /\ LET o == [Call("read") EXCEPT !.addr = addr, !.size = size, !.poll = p]
           err == PrepareError(0, addr, ChunkSize(size), p)
           c == [NoCall EXCEPT !.op = "read", !.addr = addr, !.p = p, !.remaining = size]
       IN  IF ~ser \/ LazyReadError # NoExc \/ size = 0 \/ err # NoExc
           THEN /\ last' = IF ~ser THEN [o EXCEPT !.exc = NotConnected]
                           ELSE IF LazyReadError # NoExc THEN [o EXCEPT !.exc = LazyReadError]
                           ELSE IF size = 0 THEN [o EXCEPT !.ret = <<<<>>>>]
                           ELSE [o EXCEPT !.exc = err]
                /\ UNCHANGED <<pending, blocked>>
           ELSE ReadSend(o, c, kinds)
    /\ UNCHANGED <<callerVars, section, timeoutVars, ser, debug, lazy_stack, lazy_writes,
                   rx, issued, reg, cache>>

\* ScaffoldBus.lazy_end up to its first ser.read
LiveLazyEnd ==
    /\ blocked = NoCall
    /\ IF LazyEndError # NoExc
       THEN /\ last' = [Call("lazy_end") EXCEPT !.exc = LazyEndError]
            /\ UNCHANGED <<lazy_stack, lazy_writes, blocked>>
       ELSE /\ lazy_stack' = DepthAfterLazyEnd(NoExc)
            /\ last' = Call("lazy_end")
            /\ IF lazy_stack - 1 = 0 /\ lazy_writes # <<>>
               THEN /\ blocked' = [NoCall EXCEPT !.op = "lazy_end", !.need = 1, !.i = 1]
                    /\ UNCHANGED lazy_writes
               ELSE /\ blocked' = NoCall
                    /\ lazy_writes' = QueueAfterLazyEnd(lazy_writes, lazy_stack - 1, <<>>)
    /\ UNCHANGED <<callerVars, section, timeoutVars, ser, debug, rx, issued, pending,
                   reg, cache>>

\* The waiting call when ser.read returns: the bytes are taken, the
\* acknowledgment is checked, and the method runs on to its next ser.read or
\* to its end
Resume(kinds) ==
    /\ blocked # NoCall
    /\ Len(rx) >= blocked.need
    /\ rx' = Drop(rx, blocked.need)
    /\ LET c == blocked
           res == Prefix(rx, c.need)
           ack == res[Len(res)]
           expected == IF c.op = "lazy_end" THEN lazy_writes[c.i] ELSE c.chunk_size
           o == [last EXCEPT !.nread = @ + c.need,
                             !.checks = Append(@, <<expected, ack>>)]
           left == c.remaining - c.chunk_size
           last_error == KeepError(c.last_error, ack, expected)
       IN  IF c.op = "write"
           THEN /\ UNCHANGED lazy_writes
                /\ IF ack # c.chunk_size
                   THEN /\ last' = IF AssertFails(o.poll)
                                   THEN [o EXCEPT !.exc = Exc("AssertionError", "")]
                                   ELSE TimeoutSize(o, WriteTimeoutSize(c.offset, ack))
                        /\ blocked' = NoCall /\ UNCHANGED pending
                   ELSE IF left = 0
                   THEN last' = o /\ blocked' = NoCall /\ UNCHANGED pending
                   ELSE WriteSend(o, [c EXCEPT !.remaining = left,
                                               !.offset = @ + c.chunk_size], kinds)
           ELSE IF c.op = "read"
           THEN /\ UNCHANGED lazy_writes
                /\ IF ack # c.chunk_size
                   THEN /\ last' = IF AssertFails(o.poll)
                                   THEN [o EXCEPT !.exc = Exc("AssertionError", "")]
                                   ELSE TimeoutData(o, c.result \o ShortReadData(res, ack))
                        /\ blocked' = NoCall /\ UNCHANGED pending
                   ELSE IF left = 0
                   THEN /\ last' = [o EXCEPT !.ret = <<c.result \o ChunkPayload(res)>>]
                        /\ blocked' = NoCall /\ UNCHANGED pending
                   ELSE ReadSend(o, [c EXCEPT !.remaining = left,
                                              !.result = @ \o ChunkPayload(res)], kinds)
           ELSE /\ UNCHANGED pending
                /\ IF c.i < Len(lazy_writes)
                   THEN /\ last' = o
                        /\ blocked' = [c EXCEPT !.i = @ + 1, !.last_error = last_error]
                        /\ UNCHANGED lazy_writes
                   ELSE /\ last' = IF last_error # <<>> THEN TimeoutSize(o, last_error[1])
                                   ELSE o
                        /\ blocked' = NoCall
                        /\ lazy_writes' = QueueAfterLazyEnd(lazy_writes, 0, last_error)
    /\ UNCHANGED <<callerVars, section, timeoutVars, ser, debug, lazy_stack, issued,
                   reg, cache>>

\* The board answers the oldest datagram it has not answered yet, with the
\* full length of the response
Answer ==
    /\ pending # <<>>
    /\ rx' = rx \o Head(pending)
    /\ pending' = Tail(pending)
    /\ UNCHANGED <<blocked, callerVars, section, timeoutVars, ser, debug, lazy_stack, lazy_writes, issued,
                   reg, cache, last>>

(***************************************************************************)
(* Specification of the bus engine with the serial link in time            *)
(***************************************************************************)
LiveLens == {0, 1, MAX_CHUNK + 1}

LiveKinds == {"full", "short"}

LiveBusWrite == \E n \in LiveLens, p \in Polls : LiveWrite(517, Payload(16, n), p, LiveKinds)

LiveBusRead == \E n \in LiveLens : LiveRead(517, n, NoPoll, LiveKinds)

LiveLazyStart == blocked = NoCall /\ LazyStart

LiveResume == Resume(LiveKinds)

NextLive ==
    \/ Connect \/ LiveLazyStart \/ LiveLazyEnd \/ LiveBusWrite \/ LiveBusRead
    \/ LiveResume \/ Answer

\* The board answers every datagram in the end, and the host runs on when
\* ser.read can return
SpecLive ==
    Init /\ [][NextLive]_vars /\ WF_vars(Answer) /\ WF_vars(LiveResume)

(***************************************************************************)
(* Properties                                                              *)
(***************************************************************************)
\* C1: with nested lazy sections, a lazy_end that leaves the depth above 0
\* reads no acknowledgment byte, and the lazy_end that brings the depth back
\* to 0 reads exactly one acknowledgment byte for every chunk written since
\* the outermost lazy_start, in the order the writes were issued.
C1_OutermostEndChecksEveryWrite ==
    LazyEndDone =>
        IF lazy_stack > 0 THEN last.nread = 0
        ELSE last.nread = Len(issued) /\ Expected(last) = issued

\* C2: the lazy_end that brings the depth to 0 with k queued sizes reads
\* exactly k acknowledgment bytes in FIFO order whatever their values; with
\* no mismatch it returns, otherwise it fails with a TimeoutError whose size
\* is the acknowledgment byte of the last mismatching entry.
C2_FlushReportsLastMismatch ==
    [][(last'.op = "lazy_end" /\ lazy_stack = 1 /\ lazy_stack' = 0) =>
        LET k == Len(lazy_writes)
            bad == {i \in 1..k : rx[i] # lazy_writes[i]}
        IN  /\ last'.nread = k
            /\ last'.checks = [i \in 1..k |-> <<lazy_writes[i], rx[i]>>]
            /\ rx' = Drop(rx, k)
            /\ IF bad = {}
               THEN last'.exc = NoExc
               ELSE /\ last'.exc.type = "TimeoutError"
                    /\ last'.tdata = <<>>
                    /\ last'.tsize = rx[CHOOSE i \in bad : \A j \in bad : j <= i]]_vars

\* A flush of three entries whose first and last acknowledgments are short,
\* by different values, reporting the last one
C2_Witness ==
    /\ LazyEndDone /\ lazy_stack = 0 /\ Len(last.checks) = 3
    /\ last.checks[1][1] # last.checks[1][2]
    /\ last.checks[3][1] # last.checks[3][2]
    /\ last.checks[1][2] # last.checks[3][2]
    /\ last.exc.type = "TimeoutError" /\ last.tsize = last.checks[3][2]

\* C3: after a lazy_end that brings the depth to 0, returned or failed with
\* TimeoutError, the queue is empty and the depth is 0; a flush checks only
\* writes issued since the section was opened, and with no such write it
\* reads no byte and succeeds.
C3_FlushLeavesEngineClean ==
    (LazyEndDone /\ last.depth = 1) =>
        /\ last.exc.type \in {"None", "TimeoutError"}
        /\ lazy_stack = 0 /\ lazy_writes = <<>>
        /\ IsSuffix(Expected(last), issued)
        /\ issued = <<>> => (last.nread = 0 /\ last.exc = NoExc)

\* A flush that failed and left the engine clean
C3_Witness ==
    /\ LazyEndDone /\ last.depth = 1 /\ last.exc.type = "TimeoutError"
    /\ lazy_stack = 0 /\ lazy_writes = <<>>

\* The outcome of a synchronous write whose last acknowledgment is not the
\* chunk size: no chunk follows, one byte was read per chunk sent
WriteStopsAtMismatch ==
    /\ Len(last.sent) = Len(last.checks)
    /\ last.nread = Len(last.checks)
    /\ \A i \in 1..Len(last.checks) : last.checks[i][1] = DgSize(last.sent[i])
    /\ \A i \in 1..(Len(last.checks) - 1) : last.checks[i][1] = last.checks[i][2]

\* bytes of all earlier chunks + the last acknowledgment
CumulatedSize(o) ==
    LET n == Len(o.checks)
    IN  Len(Concat([i \in 1..(n - 1) |-> DgPayload(o.sent[i])])) + o.checks[n][2]

SyncWriteMismatch ==
    /\ last.op = "write" /\ last.depth = 0 /\ last.checks # <<>>
    /\ last.checks[Len(last.checks)][1] # last.checks[Len(last.checks)][2]

BoardPayload(i) == Payload(16, DgSize(last.sent[i]))

SyncReadShort ==
    /\ last.op = "read" /\ last.depth = 0 /\ last.checks # <<>>
    /\ last.checks[Len(last.checks)][2] < last.checks[Len(last.checks)][1]

\* data of all fully acknowledged chunks, then the acknowledged prefix
PartialData(o) ==
    LET n == Len(o.checks)
    IN  Concat([i \in 1..(n - 1) |-> BoardPayload(i)])
            \o Prefix(BoardPayload(n), o.checks[n][2])

C6_ReadInLazySectionRejected ==
    [][(last'.op = "read" /\ lazy_stack > 0) =>
        /\ last'.exc.type = "RuntimeError"
        /\ last'.sent = <<>> /\ last'.nread = 0
        /\ UNCHANGED <<lazy_stack, lazy_writes, rx>>]_vars

\* A read refused on a connected bus with a write waiting in the queue
C6_Witness ==
    /\ last.op = "read" /\ ser /\ lazy_stack > 0 /\ lazy_writes # <<>>
    /\ last.exc.type = "RuntimeError" /\ last.sent = <<>>

\* C7: lazy_end at depth 0 fails with RuntimeError, performs no transport
\* I/O, and leaves the depth at 0 and the queue unchanged.
C7_UnbalancedLazyEndRejected ==
    [][(last'.op = "lazy_end" /\ lazy_stack = 0) =>
        /\ last'.exc.type = "RuntimeError"
        /\ last'.sent = <<>> /\ last'.nread = 0
        /\ lazy_stack' = 0
        /\ UNCHANGED <<lazy_writes, rx>>]_vars

\* lazy_end refused on a connected bus
C7_Witness ==
    /\ last.op = "lazy_end" /\ ser /\ last.depth = 0 /\ lazy_stack = 0
    /\ last.exc = Exc("RuntimeError", "No lazy section started")

\* C8: a write of N bytes that completes sends ceil(N/255) datagrams: every
\* chunk has 255 bytes except possibly the last, none is empty, each carries
\* the address of the call and its own size, and the payloads concatenated
\* in send order are the data.
C8_WriteChunking ==
    (last.op = "write" /\ last.exc = NoExc /\ ser) =>
        LET N == Len(last.data)
            m == Len(last.sent)
        IN  /\ m * MAX_CHUNK >= N /\ (m - 1) * MAX_CHUNK < N
            /\ \A i \in 1..m :
                  /\ DgSize(last.sent[i]) \in 1..MAX_CHUNK
                  /\ i < m => DgSize(last.sent[i]) = MAX_CHUNK
                  /\ DgAddr(last.sent[i]) = last.addr
                  /\ Len(DgPayload(last.sent[i])) = DgSize(last.sent[i])
            /\ Concat([i \in 1..m |-> DgPayload(last.sent[i])]) = last.data

\* 600 bytes written as chunks of 255, 255 and 90 bytes
C8_Witness ==
    /\ last.op = "write" /\ last.exc = NoExc /\ Len(last.data) = 600
    /\ [i \in 1..Len(last.sent) |-> DgSize(last.sent[i])] = <<255, 255, 90>>

\* C9: the cache of a non-volatile register takes a value only from a fully
\* acknowledged read, or from a write whose acknowledgment has been received
\* and equals the chunk size; also for set() inside a lazy section.
C9_CacheOnlyConfirmed ==
    [][(~reg.volatile /\ cache' # cache /\ cache' # <<>>) =>
        /\ last'.exc = NoExc
        /\ Len(last'.checks) = 1
        /\ last'.checks[1][1] = last'.checks[1][2]
        /\ \/ last'.op = "get" /\ cache' = last'.ret
           \/ last'.op = "set" /\ cache' = <<last'.value>>]_vars

\* C10: Register.set with value < min or value > max fails with ValueError,
\* sends no datagram, and leaves the cache unchanged.
C10_OutOfBoundsSetRejected ==
    [][(last'.op = "set" /\ (last'.value < reg.min_value \/ last'.value > reg.max_value)) =>
        /\ last'.exc.type = "ValueError"
        /\ last'.sent = <<>> /\ last'.nread = 0
        /\ UNCHANGED <<cache, lazy_writes, rx>>]_vars

\* A value above the maximum refused by a connected, writable register whose
\* cache holds an earlier value
C10_Witness ==
    /\ last.op = "set" /\ last.value > reg.max_value /\ ser /\ reg.w
    /\ last.exc = Exc("ValueError", "Value too high") /\ cache # <<>>

\* The first byte a call receives from the link: the oldest byte still unread
\* if there is one, else the first byte of the board's answer
FirstByteReceived ==
    IF rx # <<>> THEN {rx[1]} ELSE {Payload(seed, 1)[1] : seed \in Seeds}

\* The read datagram of one byte of the register
RegReadDatagram == <<0, reg.address \div BYTE_LIMIT, reg.address % BYTE_LIMIT>>

\* bus.read refuses the call before any I/O: no link, or a lazy section open
BusRefusesRead == ~ser \/ lazy_stack > 0

\* C11: after set(V) succeeds on a writable non-volatile register, every
\* following get() with no other set in between returns V and sends no read
\* datagram, whether or not the register is Readable: a set that returns
\* leaves V in the cache, a get with a value in the cache returns it without
\* I/O, and nothing but a set changes a value held in the cache.
C11_GetAfterSetReturnsValue ==
    [][~reg.volatile =>
        /\ (last'.op = "set" /\ last'.exc = NoExc) => cache' = <<last'.value>>
        /\ (last'.op = "get" /\ cache # <<>>) =>
              /\ last'.ret = cache /\ last'.exc = NoExc
              /\ last'.sent = <<>> /\ last'.nread = 0
              /\ UNCHANGED <<rx, lazy_writes>>
        /\ (last'.op # "set" /\ cache # <<>>) => cache' = cache]_vars

\* get() on a connected write-only register returns the value of the set
\* before it, without I/O
C11_Witness ==
    /\ last.op = "get" /\ reg.w /\ ~reg.r /\ ~reg.volatile /\ ser
    /\ last.exc = NoExc /\ last.ret = cache /\ cache = <<reg.max_value>>
    /\ last.sent = <<>> /\ last.nread = 0

\* C12: for a Volatile register, get() requires Readable (else RuntimeError
\* with no I/O); a Readable one calls bus.read for 1 byte at its address on
\* every get(), which sends exactly one read datagram unless the bus engine
\* refuses the call (no link, lazy section open), and the value returned is
\* the first byte received for that read, never the value stored by an
\* earlier get() or set(); get() never changes the stored value.
C12_VolatileGetAlwaysReads ==
    [][(reg.volatile /\ last'.op = "get") =>
        /\ cache' = cache
        /\ IF ~reg.r
           THEN /\ last'.exc = Exc("RuntimeError", "Register cannot be read")
                /\ last'.sent = <<>> /\ last'.nread = 0 /\ rx' = rx
           ELSE /\ last'.addr = reg.address /\ last'.size = 1
                /\ IF BusRefusesRead
                   THEN /\ last'.exc.type = "RuntimeError"
                        /\ last'.sent = <<>> /\ last'.nread = 0
                   ELSE /\ last'.sent = <<RegReadDatagram>>
                        /\ last'.exc = NoExc =>
                              /\ Len(last'.ret) = 1
                              /\ last'.ret[1] \in FirstByteReceived]_vars

\* get() on a readable, writable volatile register after a set: one read
\* datagram, and the value returned is the board's, not the one set
C12_Witness ==
    /\ last.op = "get" /\ reg.volatile /\ reg.r /\ reg.w
    /\ cache # <<>> /\ last.exc = NoExc
    /\ last.sent = <<RegReadDatagram>> /\ last.ret # cache

\* C13: for a non-volatile register, get() returns the cache without I/O
\* when it is populated; when it is not populated and the register is
\* Readable it calls bus.read once (one read datagram unless the bus engine
\* refuses the call), stores the byte read in the cache and returns it; a
\* populated cache stays populated, so successful get() calls send at most
\* one read datagram; when it is not populated and the register is not
\* Readable, get() fails with RuntimeError and performs no I/O.
C13_NonVolatileGet ==
    [][~reg.volatile =>
        /\ cache # <<>> => cache' # <<>>
        /\ last'.op = "get" =>
              IF cache # <<>>
              THEN /\ last'.ret = cache /\ last'.exc = NoExc
                   /\ last'.sent = <<>> /\ last'.nread = 0 /\ cache' = cache
              ELSE IF reg.r
              THEN /\ last'.addr = reg.address /\ last'.size = 1
                   /\ IF BusRefusesRead
                      THEN last'.sent = <<>> /\ last'.nread = 0
                      ELSE last'.sent = <<RegReadDatagram>>
                   /\ IF last'.exc = NoExc
                      THEN /\ Len(last'.ret) = 1
                           /\ last'.ret[1] \in FirstByteReceived
                           /\ cache' = last'.ret
                           /\ Len(last'.sent) = 1
                      ELSE cache' = <<>>
              ELSE /\ last'.exc = Exc("RuntimeError", "Register cannot be read")
                   /\ last'.sent = <<>> /\ last'.nread = 0
                   /\ UNCHANGED <<cache, rx>>]_vars

\* The first get() of a read-only non-volatile register has read the board
\* and stored the byte
C13_Witness ==
    /\ last.op = "get" /\ ~reg.volatile /\ reg.r /\ ~reg.w
    /\ last.exc = NoExc /\ last.sent = <<RegReadDatagram>>
    /\ cache = last.ret /\ cache # <<>>

\* C14: Register.set with an in-bounds value on a register that lacks the
\* Writable capability fails with RuntimeError, sends no datagram, and leaves
\* the cache unchanged.
C14_SetNotWritableRejected ==
    [][(last'.op = "set" /\ ~reg.w
        /\ last'.value >= reg.min_value /\ last'.value <= reg.max_value) =>
        /\ last'.exc = Exc("RuntimeError", "Register cannot be written")
        /\ last'.sent = <<>> /\ last'.nread = 0
        /\ UNCHANGED <<cache, lazy_writes, rx, issued>>]_vars

\* An in-bounds value refused by the connected version register, whose cache
\* holds the value read earlier
C14_Witness ==
    /\ last.op = "set" /\ ~reg.w /\ ser /\ cache # <<>>
    /\ last.value = reg.max_value
    /\ last.exc = Exc("RuntimeError", "Register cannot be written")
    /\ last.sent = <<>>

\* The paths of the arguments of the sig_connect call observed in o, when
\* both arguments convert to a path
Resolved(o) ==
    /\ o.op = "sig_connect"
    /\ signal_to_path(o.args[1]).exc = NoExc
    /\ signal_to_path(o.args[2]).exc = NoExc

DestPath(o) == signal_to_path(o.args[1]).path

SrcPath(o) == signal_to_path(o.args[2]).path

\* Entry i of a table, counted from 0 as the source does
At(table, i) == IF i \in 0..(Len(table) - 1) THEN <<table[i + 1]>> ELSE <<>>

\* The call observed in o wrote one byte, the position of its source in
\* tin, at base + the position of its destination in tout
RoutedThrough(o, base, tout, tin) ==
    /\ At(tout, o.addr - base) = <<DestPath(o)>>
    /\ Len(o.data) = 1 /\ At(tin, o.data[1]) = <<SrcPath(o)>>
    /\ ser => /\ Len(o.sent) = 1
              /\ DgBit(o.sent[1], 0) = 1
              /\ DgAddr(o.sent[1]) = o.addr
              /\ DgPayload(o.sent[1]) = o.data
              /\ o.nread <= 1
    /\ ~ser => o.sent = <<>> /\ o.exc = NotConnected

\* C15: for a destination found in one of the two output tables and a source
\* found in the matching input table, sig_connect calls bus.write once and
\* reads nothing but the acknowledgment: the one datagram sent is a write at
\* (that matrix's base + index of the destination in its output table) whose
\* one-byte payload is the index of the source in the matching input table;
\* the right-matrix output table is consulted first.
C15_ConnectIsOneWrite ==
    Resolved(last) =>
        IF Contains(mtxr_out, DestPath(last))
        THEN Contains(mtxr_in, SrcPath(last)) =>
                RoutedThrough(last, ADDR_MTXR_BASE, mtxr_out, mtxr_in)
        ELSE (Contains(mtxl_out, DestPath(last)) /\ Contains(mtxl_in, SrcPath(last))) =>
                RoutedThrough(last, ADDR_MTXL_BASE, mtxl_out, mtxl_in)

\* /i2c0/trigger connected to /io/d15 on a connected board: one write of 18
\* at 0xf100 + 21
C15_Witness ==
    /\ last.op = "sig_connect" /\ ser /\ last.exc = NoExc
    /\ last.args = <<SignalArg("/io/d15"), SignalArg("/i2c0/trigger")>>
    /\ last.sent = <<<<1, 241, 21, 18>>>>

\* The destination of the call observed in o is in neither output table
UnknownDestination(o) ==
    /\ o.op = "sig_connect"
    /\ signal_to_path(o.args[1]).exc = NoExc
    /\ ~Contains(mtxr_out, DestPath(o)) /\ ~Contains(mtxl_out, DestPath(o))

UnknownSource(o) ==
    /\ Resolved(o)
    /\ IF Contains(mtxr_out, DestPath(o)) THEN ~Contains(mtxr_in, SrcPath(o))
       ELSE Contains(mtxl_out, DestPath(o)) /\ ~Contains(mtxl_in, SrcPath(o))

\* C17: sig_connect with a valid destination and a source that is not in the
\* input table of the destination's matrix fails with ValueError and sends
\* no datagram, also when the other matrix's input table holds the source.
C17_UnknownSourceRejected ==
    [][UnknownSource(last') =>
        /\ last'.exc.type = "ValueError"
        /\ last'.sent = <<>> /\ last'.nread = 0
        /\ UNCHANGED busVars]_vars

\* A board IO as source of a board IO, on a connected board: the source is
\* in the left input table only
C17_Witness ==
    /\ last.op = "sig_connect" /\ ser
    /\ last.args = <<SignalArg("/io/a0"), SignalArg("/io/d15")>>
    /\ Contains(mtxl_in, SrcPath(last))
    /\ last.exc.type = "ValueError" /\ last.sent = <<>>

\* C18: the timeout stack is LIFO: on a connected session, each pop sends to
\* the device and caches the timeout that was in effect immediately before
\* the matching push, and removes exactly one stack entry; also when the
\* session was created with a device and the timeout was only set by the
\* connect handshake.
C18_PopRestoresPrePushTimeout ==
    [][(last'.op = "pop_timeout" /\ ser /\ timeout_stack # <<>>
        /\ pushed[Len(pushed)] # <<>>) =>
        /\ last'.exc = NoExc
        /\ last'.sent = <<TimeoutDatagram(pushed[Len(pushed)][1])>>
        /\ timeout_sent' = pushed[Len(pushed)]
        /\ cache_timeout' = pushed[Len(pushed)]
        /\ timeout_stack' = Prefix(timeout_stack, Len(timeout_stack) - 1)]_vars

\* C19: pop on an empty timeout stack fails with RuntimeError, sends no
\* timeout datagram, and leaves the cached timeout and the (empty) stack
\* unchanged.
C19_PopOnEmptyStackRejected ==
    [][(last'.op = "pop_timeout" /\ timeout_stack = <<>>) =>
        /\ last'.exc = Exc("RuntimeError", "Timeout setting stack is empty")
        /\ last'.sent = <<>>
        /\ UNCHANGED <<cache_timeout, timeout_stack, timeout_sent>>]_vars

\* pop refused on a connected session whose timeout is set and whose stack
\* is empty
C19_Witness ==
    /\ last.op = "pop_timeout" /\ ser /\ timeout_stack = <<>>
    /\ cache_timeout # <<>> /\ cache_timeout = timeout_sent
    /\ last.exc = Exc("RuntimeError", "Timeout setting stack is empty")
    /\ last.sent = <<>>

\* C20: in every state reached after the session is constructed (with or
\* without a device) and after any sequence of timeout set/push/pop calls,
\* the cached unit count equals the value carried by the most recent timeout
\* datagram sent to the device, and is unset only if none was ever sent.
C20_CacheIsLastTimeoutSent == cache_timeout = timeout_sent

\* The unit count carried by a timeout datagram: opcode 0x08, then 4 bytes,
\* big-endian
IsTimeoutDatagram(d, n) ==
    /\ Len(d) = 5 /\ d[1] = 8
    /\ \A i \in 2..5 : d[i] \in 0..(BYTE_LIMIT - 1)
    /\ d[2] * BYTE_LIMIT + d[3] = n.hi
    /\ d[4] * BYTE_LIMIT + d[5] = n.lo

\* C21: setting a timeout whose unit count is negative or exceeds 0xFFFFFFFF
\* fails with ValueError, sends no datagram, and leaves the cached unit count
\* unchanged; for a unit count in range, on a connected session, exactly one
\* 5-byte datagram (0x08, then the value as 4 big-endian bytes) is sent and
\* the cache is updated to that count (with no link nothing is sent and the
\* cache is unchanged).
C21_TimeoutRangeChecked ==
    [][last'.op = "timeout=" =>
        LET n == ToUnits(last'.args[1])
        IN  IF n.hi < 0 \/ n.hi >= WORD
            THEN /\ last'.exc = Exc("ValueError", "Timeout value out of range")
                 /\ last'.sent = <<>>
                 /\ UNCHANGED <<cache_timeout, timeout_sent>>
            ELSE IF ser
            THEN /\ last'.exc = NoExc
                 /\ Len(last'.sent) = 1 /\ IsTimeoutDatagram(last'.sent[1], n)
                 /\ last'.nread = 0
                 /\ cache_timeout' = <<n>>
            ELSE /\ last'.exc # NoExc /\ last'.sent = <<>>
                 /\ UNCHANGED <<cache_timeout, timeout_sent>>]_vars

\* 129 s (4300000000 units) refused on a connected session whose cache holds
\* the 4266666666 units of 128 s, sent as 08 fe 50 2a aa
C21_Witness ==
    /\ last.op = "timeout=" /\ last.args = <<Literal(129, 0)>> /\ ser
    /\ last.exc = Exc("ValueError", "Timeout value out of range")
    /\ last.sent = <<>>
    /\ cache_timeout = <<ToUnits(Literal(128, 0))>>
    /\ TimeoutDatagram(cache_timeout[1]) = <<8, 254, 80, 42, 170>>

\* C22: every bus operation attempted before a transport is bound (read,
\* write and set_timeout) fails with RuntimeError 'Not connected to board'
\* and changes no engine state (depth, queue).
C22_NotConnectedRejected ==
    [][(~ser /\ last'.op \in {"read", "write", "set_timeout"}) =>
        /\ last'.exc = NotConnected
        /\ last'.sent = <<>> /\ last'.nread = 0
        /\ UNCHANGED <<lazy_stack, lazy_writes>>]_vars

HelperOps == {"or_set", "set_bit", "set_mask"}

\* The write datagram of the value of the call observed in o
IsRegWrite(d, o) ==
    /\ DgBit(d, 0) = 1 /\ DgAddr(d) = reg.address
    /\ DgPayload(d) = ToBytes(o.value, reg.wideness)

\* C23 (as claimed): each successful call of set_bit, set_mask or or_set
\* sends one read datagram followed by one write datagram, whether the
\* register is volatile or not and whether its cache is populated or not.
C23_HelperReadsThenWrites ==
    (last.op \in HelperOps /\ last.exc = NoExc) =>
        /\ Len(last.sent) = 2
        /\ DgBit(last.sent[1], 0) = 0
        /\ DgBit(last.sent[2], 0) = 1

\* C23 (amended): each successful call of set_bit, set_mask or or_set sends
\* exactly one write datagram, of the value computed from the current one;
\* it is preceded by one read datagram, whose byte is the current value, only
\* when the register is volatile or its cache is empty; otherwise the current
\* value is the cache and nothing is read.
C23_HelperReadsUnlessCached ==
    [][(last'.op \in HelperOps /\ last'.exc = NoExc) =>
        IF reg.volatile \/ cache = <<>>
        THEN /\ Len(last'.sent) = 2
             /\ last'.sent[1] = RegReadDatagram
             /\ IsRegWrite(last'.sent[2], last')
             /\ \E current \in FirstByteReceived :
                   last'.value = NewValue(last'.op, last'.args, current)
        ELSE /\ Len(last'.sent) = 1
             /\ IsRegWrite(last'.sent[1], last')
             /\ last'.value = NewValue(last'.op, last'.args, cache[1])]_vars

\* set_bit(7, 0) on a connected write-only register whose cache holds 255:
\* one write of 127 and no read
C23_Witness ==
    /\ last.op = "set_bit" /\ last.args = <<7, 0>> /\ last.exc = NoExc
    /\ ser /\ lazy_stack = 0 /\ ~reg.r /\ reg.w /\ reg.wideness = 1
    /\ last.value = 127 /\ cache = <<127>>
    /\ Len(last.sent) = 1 /\ DgBit(last.sent[1], 0) = 1


\* C24: a block run under the lazy-section guard leaves the depth it found,
\* on every exit path: when __exit__ has run, the depth is the depth that
\* __enter__ met, whether the body completed, raised, or the flush raised.
C24_SectionRestoresDepth ==
    [][Len(section'.depths) < Len(section.depths)
        => lazy_stack' = section.depths[Len(section.depths)]]_vars

\* a block left by the UsageError of a read in its body, whose flush then
\* raised Timeout, with the depth back to 0
C24_Witness ==
    /\ section.depths = <<>>
    /\ section.exc = Exc("RuntimeError", "Read operations not allowed during lazy-update section.")
    /\ last.op = "lazy_end" /\ last.exc.type = "TimeoutError"
    /\ last.depth = 1 /\ lazy_stack = 0

\* C25: between bus operations, the acknowledgment bytes the board has sent
\* and the host has not read are as many as the queued expected sizes; at
\* depth 0 none is left unread, so the next synchronous call reads the answer
\* to its own datagram.
C25_UnreadAcksMatchQueue ==
    /\ Len(rx) = Len(lazy_writes)
    /\ lazy_stack = 0 => rx = <<>>


\* C26: a write issued at a depth above 0 on a connected bus sends every chunk
\* without reading a byte, appends the chunk sizes to the end of the queue in
\* send order, and returns; whatever the board answers it never fails with
\* Timeout (not connected, it fails before sending and queues nothing).
C26_LazyWriteQueuesChunkSizes ==
    [][(last'.op = "write" /\ lazy_stack > 0) =>
        LET N == Len(last'.data)
            m == Len(last'.sent)
        IN  /\ last'.nread = 0 /\ last'.checks = <<>>
            /\ Len(rx') = Len(rx) + m /\ Prefix(rx', Len(rx)) = rx
            /\ last'.exc.type # "TimeoutError"
            /\ lazy_writes' = lazy_writes \o [i \in 1..m |-> DgSize(last'.sent[i])]
            /\ IF ser
               THEN /\ last'.exc = NoExc
                    /\ m = NChunks(N)
                    /\ \A i \in 1..m : DgSize(last'.sent[i]) = ChunkLen(N, i)
               ELSE last'.exc = NotConnected /\ m = 0]_vars

\* a 600-byte write in a lazy section: 255, 255, 90 queued, the three
\* acknowledgment bytes left unread
C26_Witness ==
    /\ last.op = "write" /\ last.depth = 1 /\ last.exc = NoExc
    /\ Len(last.data) = 600 /\ last.nread = 0
    /\ lazy_writes = <<255, 255, 90>> /\ Len(rx) = 3


\* C27: the depth is never negative; lazy_start raises it by 1, a lazy_end
\* that returns or fails with Timeout lowers it by 1, and every other call
\* (read, write, set_timeout, register and matrix operations, refused calls)
\* leaves it alone. The engine batches exactly while the depth is above 0: a
\* write that sends then reads no acknowledgment, and a read is refused.
C27_DepthCountsOpenSections ==
    [][/\ lazy_stack >= 0 /\ lazy_stack' >= 0
       /\ lazy_stack' =
            IF last'.op = "lazy_start" THEN lazy_stack + 1
            ELSE IF last'.op = "lazy_end" /\ last'.exc.type \in {"None", "TimeoutError"}
                 THEN lazy_stack - 1
            ELSE lazy_stack
       /\ (last'.op = "write" /\ last'.sent # <<>>) =>
             (last'.nread = 0 <=> lazy_stack > 0)
       /\ (last'.op = "read" /\ ser) =>
             (last'.exc.type = "RuntimeError" /\ last'.sent = <<>> <=> lazy_stack > 0)]_vars

\* a lazy_end that failed with Timeout and brought the depth from 1 to 0
C27_Witness ==
    /\ last.op = "lazy_end" /\ last.exc.type = "TimeoutError"
    /\ last.depth = 1 /\ lazy_stack = 0 /\ last.nread = 2


\* C28: whenever the depth is 0 between two calls, the queue of expected
\* acknowledgment sizes is empty.
C28_QueueEmptyAtDepthZero ==
    lazy_stack = 0 => lazy_writes = <<>>

\* a write sent and checked at depth 0 after a lazy section in which a write
\* had been queued: nothing is queued
C28_Witness ==
    /\ last.op = "write" /\ last.depth = 0 /\ lazy_stack = 0
    /\ last.sent # <<>> /\ last.nread = 1 /\ issued # <<>>
    /\ lazy_writes = <<>>


\* C29: set_timeout reads no byte whatever the depth, and leaves the depth,
\* the queue of expected acknowledgments and the unread bytes as they were,
\* so the acknowledgments read at the flush stay paired with the queued
\* writes.
C29_SetTimeoutFireAndForget ==
    [][last'.op = "set_timeout" =>
        /\ last'.nread = 0 /\ last'.checks = <<>>
        /\ UNCHANGED <<lazy_stack, lazy_writes, rx, issued>>]_vars

\* a timeout datagram sent inside a lazy section after a queued write
C29_Witness ==
    /\ last.op = "set_timeout" /\ last.exc = NoExc /\ Len(last.sent) = 1
    /\ lazy_stack = 1 /\ lazy_writes = <<1>> /\ Len(rx) = 1


\* C30: a read at depth 0 returns normally exactly when every chunk is
\* acknowledged with its size; it has then sent ceil(size/255) read datagrams
\* for the address of the call (chunks of 255 but possibly the last), received
\* chunk_size + 1 bytes for each, and returns the size bytes of the payloads in
\* request order, the acknowledgment bytes removed.
C30_ReadChunking ==
    (last.op = "read" /\ ser /\ last.depth = 0) =>
        LET m == Len(last.sent)
            acked == \A i \in 1..Len(last.checks) : last.checks[i][2] = last.checks[i][1]
        IN  /\ last.exc = NoExc <=> acked
            /\ last.exc = NoExc =>
                  /\ m = NChunks(last.size) /\ Len(last.checks) = m
                  /\ \A i \in 1..m :
                        /\ DgBit(last.sent[i], 0) = 0
                        /\ DgAddr(last.sent[i]) = last.addr
                        /\ DgSize(last.sent[i]) = ChunkLen(last.size, i)
                        /\ DgPayload(last.sent[i]) = <<>>
                        /\ last.checks[i][1] = ChunkLen(last.size, i)
                  /\ last.nread = last.size + m
                  /\ Len(last.ret) = 1 /\ Len(last.ret[1]) = last.size
                  /\ last.ret[1] = Concat([i \in 1..m |-> Payload(16, ChunkLen(last.size, i))])


\* C31: whatever byte differing from the chunk size acknowledges a chunk, the
\* data of the Timeout raised by the read holds payload bytes only: it is a
\* prefix of the payloads the board sent, shorter than the size asked for.
C31_TimeoutDataIsPayloadOnly ==
    (last.op = "read" /\ last.exc.type = "TimeoutError") =>
        LET data == last.tdata[1]
            m == Len(last.sent)
            payloads == Concat([i \in 1..m |-> Payload(16, ChunkLen(last.size, i))])
        IN  /\ Len(data) < last.size
            /\ data = Prefix(payloads, Len(data))


\* C32: a Register.set that fails (Timeout on a short acknowledgment at depth
\* 0, not connected, or any other failure) leaves the cache as it was, and a
\* get answered without I/O returns the cached value, so it does not return
\* the value that failed to be written.
C32_FailedSetKeepsCache ==
    [][/\ (last'.op = "set" /\ last'.exc # NoExc) => cache' = cache
       /\ (last'.op = "get" /\ last'.exc = NoExc /\ last'.sent = <<>>) =>
             (cache # <<>> /\ last'.ret = cache /\ cache' = cache)]_vars

\* a set of another value than the cached one failed with Timeout at depth 0
C32_Witness ==
    /\ last.op = "set" /\ last.exc.type = "TimeoutError" /\ last.depth = 0
    /\ last.nread = 1 /\ cache # <<>> /\ cache[1] # last.value


\* C33: raw Register.write needs the register to be writable and raw
\* Register.read needs it to be readable; otherwise they fail with a
\* RuntimeError and no I/O. Neither changes the cache, and a get that follows
\* a successful raw write to a non-volatile register with a cached value
\* returns that value without I/O, whatever bytes were written.
C33_RawTransfersBypassCache ==
    [][/\ last'.op = "Register.write" =>
             /\ cache' = cache
             /\ IF reg.w THEN last'.exc.msg # "Register cannot be written"
                ELSE /\ last'.exc = Exc("RuntimeError", "Register cannot be written")
                     /\ last'.sent = <<>> /\ last'.nread = 0 /\ UNCHANGED busVars
       /\ last'.op = "Register.read" =>
             /\ cache' = cache
             /\ IF reg.r THEN last'.exc.msg # "Register cannot be read"
                ELSE /\ last'.exc = Exc("RuntimeError", "Register cannot be read")
                     /\ last'.sent = <<>> /\ last'.nread = 0 /\ UNCHANGED busVars
       /\ (/\ last'.op = "get" /\ last.op = "Register.write" /\ last.exc = NoExc
           /\ ~reg.volatile /\ cache # <<>>) =>
             /\ last'.exc = NoExc /\ last'.ret = cache
             /\ last'.sent = <<>> /\ last'.nread = 0]_vars

\* a successful raw write, at depth 0, of bytes other than those of the
\* cached value of a non-volatile register: the cache keeps the value
C33_Witness ==
    /\ last.op = "Register.write" /\ last.exc = NoExc /\ last.depth = 0
    /\ Len(last.sent) = 1 /\ last.nread = 1
    /\ ~reg.volatile /\ cache # <<>>
    /\ last.data # ToBytes(cache[1], reg.wideness)


\* bit j of a non-negative int
BitOf(n, j) == (n \div Pow(2, j)) % 2

\* C34: on a writable non-volatile register whose cache holds c, a successful
\* set_mask(value, mask) writes and caches the int whose bits are those of
\* value inside the mask and those of c outside it; a successful
\* set_bit(i, v) writes and caches c with bit i replaced by v (as 0 or 1),
\* and a get_bit(i) that follows it returns that bit without I/O.
C34_MaskedUpdate ==
    [][/\ (/\ last'.op = "set_mask" /\ last'.exc = NoExc
           /\ ~reg.volatile /\ cache # <<>>) =>
             /\ cache' = <<last'.value>>
             /\ Len(last'.sent) = 1 /\ IsRegWrite(last'.sent[1], last')
             /\ \A j \in 0..(8 * reg.wideness - 1) :
                   BitOf(last'.value, j) =
                      IF BitOf(last'.args[2], j) = 1 THEN BitOf(last'.args[1], j)
                      ELSE BitOf(cache[1], j)
       /\ (/\ last'.op = "set_bit" /\ last'.exc = NoExc
           /\ ~reg.volatile /\ cache # <<>>) =>
             /\ cache' = <<last'.value>>
             /\ Len(last'.sent) = 1 /\ IsRegWrite(last'.sent[1], last')
             /\ \A j \in 0..(8 * reg.wideness - 1) :
                   BitOf(last'.value, j) =
                      IF j = last'.args[1] THEN last'.args[2] ELSE BitOf(cache[1], j)
       /\ (/\ last'.op = "get_bit" /\ last.op = "set_bit" /\ last.exc = NoExc
           /\ last'.args[1] = last.args[1] /\ ~reg.volatile) =>
             /\ last'.exc = NoExc /\ last'.ret = <<last.args[2]>>
             /\ last'.sent = <<>> /\ cache' = cache]_vars

\* set_mask(5, 60) on the two-byte register whose cache holds 65535: 65479
\* (0xffc7) is written and cached
C34_Witness ==
    /\ last.op = "set_mask" /\ last.args = <<5, 60>> /\ last.exc = NoExc
    /\ reg.w /\ ~reg.volatile /\ reg.wideness = 2
    /\ last.value = 65479 /\ cache = <<65479>>
    /\ Len(last.sent) = 1


\* C35: the helpers are not atomic. The get of a caller returns the byte the
\* board holds at that time, and its set writes the value computed from that
\* byte whatever the board holds by then: with the steps of two callers
\* interleaved as read-1, read-2, write-1, write-2 the second write puts back
\* the bits the second caller read, and the update of the first is lost.
C35_HelpersWriteFromStaleRead ==
    [][\A c \in 1..2 :
        /\ (callers[c].pc # "read" /\ callers'[c].pc = "read") =>
              callers'[c].current = device /\ device' = device
        /\ (callers[c].pc = "read" /\ callers'[c].pc = "done") =>
              /\ last'.exc = NoExc /\ Len(last'.sent) = 1 /\ last'.nread = 1
              /\ device' = NewValue(callers[c].op, callers[c].args, callers[c].current)]_vars

\* both callers are done, the first with set_mask(1, 1), the second with
\* set_mask(6, 6) written last, and bit 0 of the register is 0: the update of
\* the first caller is lost
C35_Witness ==
    /\ callers[1].pc = "done" /\ callers[1].op = "set_mask" /\ callers[1].args = <<1, 1>>
    /\ callers[2].pc = "done" /\ callers[2].op = "set_mask" /\ callers[2].args = <<6, 6>>
    /\ last.op = "set_mask" /\ last.args = <<6, 6>> /\ last.exc = NoExc
    /\ callers[1].current = 0 /\ callers[2].current = 0
    /\ device = 6


\* C36: a push_timeout that fails because the unit count is outside the
\* 32-bit unsigned range leaves the timeout stack and the cached timeout as
\* they were before the call.
C36_FailedPushLeavesStack ==
    [][(/\ last'.op = "push_timeout"
        /\ last'.exc = Exc("ValueError", "Timeout value out of range")) =>
          /\ timeout_stack' = timeout_stack
          /\ cache_timeout' = cache_timeout]_vars


\* C37: the board answering every datagram in the end with the full length
\* of its response, every write, read and lazy_end that waits in ser.read
\* gets the bytes it waits for and completes, after any earlier calls, nested
\* lazy sections included; and a call that fails ends there: the step in
\* which it fails sends no datagram.
C37_CallsComplete ==
    /\ (blocked # NoCall) ~> (blocked = NoCall)
    /\ [][(last'.exc # NoExc /\ last' # last) =>
             (blocked' = NoCall /\ pending' = pending)]_vars

\* a lazy_end that has checked one acknowledgment and waits for the second
\* one, which the board has not sent yet
C37_Witness ==
    /\ blocked.op = "lazy_end" /\ blocked.i = 2 /\ blocked.need = 1
    /\ rx = <<>> /\ Len(pending) = 1 /\ lazy_stack = 0


\* C38: every datagram a write or a read sends has, in its command byte,
\* bit 0 equal to rw (1 for write, 0 for read), bit 1 set exactly when the
\* size of its chunk is above 1 and bit 2 set exactly when a poll spec is
\* given; the address follows in two bytes, high byte first; then the four
\* poll bytes exactly when bit 2 is set, then the chunk size in one byte
\* exactly when bit 1 is set, then, for a write only, the chunk's bytes of
\* the data and nothing more.
C38_DatagramLayout ==
    last.op \in {"write", "read"} =>
        \A k \in 1..Len(last.sent) :
            LET d == last.sent[k]
                rw == IF last.op = "write" THEN 1 ELSE 0
                total == IF rw = 1 THEN Len(last.data) ELSE last.size
                size == ChunkLen(total, k)
                polled == last.poll.poll # <<>>
                h == IF polled THEN 7 ELSE 3
                s == IF size > 1 THEN 1 ELSE 0
            IN  /\ BitOf(d[1], 0) = rw
                /\ BitOf(d[1], 1) = 1 <=> size > 1
                /\ BitOf(d[1], 2) = 1 <=> polled
                /\ d[1] < 8
                /\ d[2] * BYTE_LIMIT + d[3] = last.addr
                /\ polled => /\ d[4] * BYTE_LIMIT + d[5] = last.poll.poll[1]
                             /\ d[6] = last.poll.mask
                             /\ d[7] = last.poll.value
                /\ size > 1 => d[h + 1] = size
                /\ Len(d) = h + s + (IF rw = 1 THEN size ELSE 0)
                /\ rw = 1 => \A i \in 1..size :
                                d[h + s + i] = last.data[(k - 1) * MAX_CHUNK + i]

\* a polled write of three chunks, the last one of 90 bytes, all sent
C38_Witness ==
    /\ last.op = "write" /\ last.poll.poll # <<>> /\ Len(last.sent) = 3
    /\ Len(last.sent[3]) = 8 + 90 /\ Len(last.sent[1]) = 8 + MAX_CHUNK


\* C39: the is_connected query of the engine raises nothing and returns
\* False while no transport is bound, True once connect has bound one.
C39_IsConnectedReportsTransport ==
    last.op = "is_connected" => (last.exc = NoExc /\ last.ret = <<ser>>)

=========================================================================
